---- MODULE Spec2Model ----
(***************************************************************************)
(* QuicServe: one RPC client (src/src/client.rs) talking over one          *)
(* WebTransport message stream (src/src/transport.rs) to one server        *)
(* session (src/src/server.rs, handle_session).                            *)
(*                                                                         *)
(* Every tokio::sync::Mutex critical section of the client is one action.  *)
(* close() keeps its three guards until it returns, so it is three actions *)
(* and the other actions that need the session or message_stream lock are  *)
(* disabled while close() holds it.                                        *)
(*                                                                         *)
(* Specifications: Spec (client, stream and session together), SpecWrap    *)
(* (request id wrap-around), SpecServer (the session serving a remote      *)
(* client that writes any frame), SpecDemux (the client connected to a     *)
(* remote server that writes any frame), SpecFrames (both of these ends),  *)
(* SpecRegistry (register_service), SpecConn (handle_connection),          *)
(* SpecParams (validate_connection_params), SpecNew (Client::new and       *)
(* Server::new), SpecCodec (serialize and deserialize of the envelopes),   *)
(* SpecCancel (calls dropped by their caller), SpecSend (request writes    *)
(* that fail), SpecServe (the accept loop of serve), SpecEmptyPart         *)
(* (requests with an empty service or method part), SpecIds (id            *)
(* allocation), SpecLocks (the client's mutexes, lock by lock),            *)
(* SpecServerConfig (Server::new and the identity files) and SpecRetry     *)
(* with SpecRetryFair (retry_with_backoff).                                *)
(***************************************************************************)
EXTENDS Integers, Sequences, FiniteSets, TLC

(* ------------------------------ bounds -------------------------------- *)

\* number of call() invocations made on the client
MaxCalls == 2

\* width in bits of the request id counter (u64 in the code, scaled down so
\* that wrapping_add wraps within MaxCalls calls)
IdBits == 1

\* number of close() invocations made on the client
MaxCloses == 2

\* number of frames a remote peer writes on its own
MaxPeerFrames == 2

\* number of service objects offered to register_service()
MaxHandles == 3

\* number of session requests made on one connection
MaxSessions == 3

\* number of QUIC connections that arrive at the server's endpoint
MaxConnections == 3

\* largest max_retries given to retry_with_backoff()
MaxRetries == 3

IdSpace == 2 ^ IdBits

Ids == 0..(IdSpace - 1)

\* the call() invocations of the full system
Calls == 1..MaxCalls

\* the call() invocations of the id wrap-around scenario: one more than there are ids
WrapCalls == 1..(IdSpace + 1)

\* the call() invocations of the id allocation scenario: the ids wrap around
\* although the payload of one call does not serialize
IdCalls == 1..(IdSpace + 2)

CallIds == Calls \cup WrapCalls \cup IdCalls

(* --------------------------- values on the wire ----------------------- *)

\* Option<T>: None is the empty sequence, Some(x) the one-element sequence
None == << >>

Some(x) == << x >>

\* method strings, as sequences of characters
Methods == { << "e", ".", "e" >>, << "n", ".", "x" >> }

\* the values call() is given as its request (strings, as their bytes): ""
\* and "Hi"
Payloads == { << >>, << 72, 105 >> }

\* a value of 16 MiB: the element -1 stands for a run of 16 MiB bytes "x"
BigPayload == << -1 >>

\* the byte of each ASCII character: the characters of code 1 to 31 (the
\* control characters, written raw where TLA+ has no escape for them), of
\* code 32 to 95, and of code 97 to 127 (DEL, written raw, is the last); a
\* string of TLA+ holds no backtick (code 96)
CharTable ==
    LET Runs == << << 1, "\t\n\f\r" >>,
                   << 32, " !\"#$%&'()*+,-./0123456789:;<=>?@ABCDEFGHIJKLMNOPQRSTUVWXYZ[\\]^_" >>,
                   << 97, "abcdefghijklmnopqrstuvwxyz{|}~" >> >>
        Pairs == UNION { { << SubSeq(Runs[r][2], i, i), Runs[r][1] + i - 1 >> :
                               i \in 1..Len(Runs[r][2]) } : r \in 1..Len(Runs) }
    IN  [c \in { p[1] : p \in Pairs } |-> (CHOOSE p \in Pairs : p[1] = c)[2]]

\* the byte of the ASCII character c: the texts of the model are ASCII, and
\* the character of code 0 is the one that CharTable does not hold
CharByte(c) == IF c \in DOMAIN CharTable THEN CharTable[c] ELSE 0

\* what serde_json writes for byte b of a string: '"' and '\' behind a
\* backslash, the control characters as \b, \t, \n, \f, \r or \u00XX, and
\* every other byte as it is
EscapeByte(b) ==
    LET HexDigit(n) == IF n < 10 THEN 48 + n ELSE 87 + n
    IN  IF b = 34 THEN << 92, 34 >>
        ELSE IF b = 92 THEN << 92, 92 >>
        ELSE IF b = 8 THEN << 92, 98 >>
        ELSE IF b = 9 THEN << 92, 116 >>
        ELSE IF b = 10 THEN << 92, 110 >>
        ELSE IF b = 12 THEN << 92, 102 >>
        ELSE IF b = 13 THEN << 92, 114 >>
        ELSE IF b >= 0 /\ b < 32
        THEN << 92, 117, 48, 48, HexDigit(b \div 16), HexDigit(b % 16) >>
        ELSE << b >>

\* the configured format is SerializationFormat::Json.
\* serde_json::to_vec(value) of a string: its bytes, each as EscapeByte
\* writes it, between double quotes
to_vec(value) ==
    LET RECURSIVE Escape(_)
        Escape(v) == IF v = << >> THEN << >> ELSE EscapeByte(Head(v)) \o Escape(Tail(v))
    IN  << 34 >> \o Escape(value) \o << 34 >>

\* serde_json::from_slice(data) as a String: white space, the text between
\* double quotes with its escapes decoded (\uXXXX with surrogate pairs
\* included), white space; a raw control character, an unknown escape, a lone
\* surrogate, decoded bytes that are not UTF-8, an end of input inside the
\* text and anything else than white space after it are errors (the empty
\* input is "EOF while parsing a value")
from_slice(data) ==
    LET Fail == [ok |-> FALSE, val |-> << >>]
        RECURSIVE SkipWs(_)
        SkipWs(i) == IF i <= Len(data) /\ data[i] \in { 32, 9, 10, 13 } THEN SkipWs(i + 1) ELSE i
        HexVal(b) == IF b \in 48..57 THEN b - 48
                     ELSE IF b \in 65..70 THEN b - 55
                     ELSE IF b \in 97..102 THEN b - 87 ELSE -1
        Hex4(i) == IF i + 3 <= Len(data) /\ \A j \in i..(i + 3) : HexVal(data[j]) >= 0
                   THEN 4096 * HexVal(data[i]) + 256 * HexVal(data[i + 1])
                        + 16 * HexVal(data[i + 2]) + HexVal(data[i + 3])
                   ELSE -1
        encode_utf8(c) ==
            IF c < 128 THEN << c >>
            ELSE IF c < 2048 THEN << 192 + (c \div 64), 128 + (c % 64) >>
            ELSE IF c < 65536
            THEN << 224 + (c \div 4096), 128 + ((c \div 64) % 64), 128 + (c % 64) >>
            ELSE << 240 + (c \div 262144), 128 + ((c \div 4096) % 64),
                    128 + ((c \div 64) % 64), 128 + (c % 64) >>
        SimpleEscape(e) ==
            IF e \in { 34, 92, 47 } THEN e
            ELSE IF e = 98 THEN 8 ELSE IF e = 102 THEN 12 ELSE IF e = 110 THEN 10
            ELSE IF e = 114 THEN 13 ELSE IF e = 116 THEN 9 ELSE -1
        RECURSIVE ParseStr(_, _)
        ParseStr(i, acc) ==
            IF i > Len(data) THEN [ok |-> FALSE, val |-> << >>, next |-> i]
            ELSE IF data[i] = 34 THEN [ok |-> TRUE, val |-> acc, next |-> i + 1]
            ELSE IF data[i] = 92
            THEN IF i + 1 > Len(data) THEN [ok |-> FALSE, val |-> << >>, next |-> i]
                 ELSE IF data[i + 1] = 117
                 THEN IF Hex4(i + 2) < 0 \/ Hex4(i + 2) \in 56320..57343
                      THEN [ok |-> FALSE, val |-> << >>, next |-> i]
                      ELSE IF Hex4(i + 2) \in 55296..56319
                      THEN IF /\ i + 7 <= Len(data)
                              /\ data[i + 6] = 92
                              /\ data[i + 7] = 117
                              /\ Hex4(i + 8) \in 56320..57343
                           THEN ParseStr(i + 12,
                                    acc \o encode_utf8(65536 + (Hex4(i + 2) - 55296) * 1024
                                                       + (Hex4(i + 8) - 56320)))
                           ELSE [ok |-> FALSE, val |-> << >>, next |-> i]
                      ELSE ParseStr(i + 6, acc \o encode_utf8(Hex4(i + 2)))
                 ELSE IF SimpleEscape(data[i + 1]) >= 0
                 THEN ParseStr(i + 2, Append(acc, SimpleEscape(data[i + 1])))
                 ELSE [ok |-> FALSE, val |-> << >>, next |-> i]
            ELSE IF data[i] >= 0 /\ data[i] < 32 THEN [ok |-> FALSE, val |-> << >>, next |-> i]
            ELSE ParseStr(i + 1, Append(acc, data[i]))
        Cont(v, i) == i <= Len(v) /\ v[i] \in 128..191
        RECURSIVE Utf8(_, _)
        Utf8(v, i) ==
            IF i > Len(v) THEN TRUE
            ELSE IF v[i] < 128 THEN Utf8(v, i + 1)
            ELSE IF v[i] \in 194..223 THEN Cont(v, i + 1) /\ Utf8(v, i + 2)
            ELSE IF v[i] \in 224..239
            THEN /\ Cont(v, i + 1) /\ Cont(v, i + 2)
                 /\ (v[i] = 224 => v[i + 1] >= 160)
                 /\ (v[i] = 237 => v[i + 1] <= 159)
                 /\ Utf8(v, i + 3)
            ELSE IF v[i] \in 240..244
            THEN /\ Cont(v, i + 1) /\ Cont(v, i + 2) /\ Cont(v, i + 3)
                 /\ (v[i] = 240 => v[i + 1] >= 144)
                 /\ (v[i] = 244 => v[i + 1] <= 143)
                 /\ Utf8(v, i + 4)
            ELSE FALSE
        start == SkipWs(1)
        parsed == ParseStr(start + 1, << >>)
    IN  IF start > Len(data) \/ data[start] # 34 THEN Fail
        ELSE IF parsed.ok /\ Utf8(parsed.val, 1) /\ SkipWs(parsed.next) > Len(data)
        THEN [ok |-> TRUE, val |-> parsed.val]
        ELSE Fail

\* names in the service registry (Server.services)
services == { << "e" >> }

\* no sender / no call
NoCall == 0

(* ------------------------------ state --------------------------------- *)

VARIABLES
    session,        \* Client.session: TRUE when Some(session)
    message_stream, \* Client.message_stream: "None" or "Some"
    pending,        \* Client.pending: id -> call whose sender is stored (NoCall: no entry)
    next_id,        \* Client.next_id
    call,           \* one record per call() invocation
    rx,             \* per call, the oneshot receiver's view of its channel
    connect,        \* position of connect()
    closer,         \* position of close(), the number of close() returned, and history:
                    \* open (this close() began after connect() returned), afterConnect
                    \* (such a close() has returned), awaiting (the calls that awaited
                    \* their response when a close() drained the table) and drained
                    \* (those of them whose sender was in the table)
    handler,        \* the response handler task
    conn,           \* the transport: "none", "up" or "down"
    c2s,            \* request frames written by the client, not yet read by the server
    s2c,            \* response frames written by the server, not yet read by the client
    srv,            \* the server session task (handle_session)
    peer,           \* number of frames a remote peer wrote on its own
    server,         \* Server.services, and the last register_service() call
    hconn,          \* the connection task (handle_connection)
    params,         \* a call made with a Config (validate_connection_params(),
                    \* Client::new() or Server::new()): its Config and its result
    codec,          \* a serialize() call followed by deserialize(): the value, the
                    \* format, the bytes and the value decoded from them
    accept,         \* serve(): its position and result, the endpoint, and one entry
                    \* per incoming connection
    locks,          \* the owners of the client's four mutexes and the positions of
                    \* the tasks that take them
    retry           \* a retry_with_backoff() call

vars == << session, message_stream, pending, next_id, call, rx, connect, closer,
           handler, conn, c2s, s2c, srv, peer, server, hconn, params, codec,
           accept, locks, retry >>

\* the state outside the client and its session
others == << peer, server, hconn, params, codec, accept, locks, retry >>

(* --------------------------- values (continued) ----------------------- *)

\* Request { id, method, payload }; origin names the call() that built it
Request(id, method, payload, origin) ==
    [id |-> id, method |-> method, payload |-> payload, origin |-> origin]

\* Response { id, payload, error }; origin names the call() whose request it answers
Response(id, payload, error, origin) ==
    [id |-> id, payload |-> payload, error |-> error, origin |-> origin]

NoRequest == Request(0, << >>, << >>, NoCall)

NoResponse == Response(0, None, None, NoCall)

(* ------------------------------ framing ------------------------------- *)

\* LengthDelimitedCodec's max_frame_length: 16 MiB
MaxFrameLength == 16 * 1024 * 1024

\* a frame on the wire: its 4-byte length prefix, whether its body decodes in
\* the configured format, and the message it decodes to
Frame(len, valid, msg) == [len |-> len, valid |-> valid, msg |-> msg]

\* number of decimal digits of n
RECURSIVE Digits(_)
Digits(n) == IF n < 10 THEN 1 ELSE 1 + Digits(n \div 10)

\* a piece of text that stands for a run of MaxFrameLength - 38 characters
\* "a": a request for the method "e." followed by it fits in a frame, and the
\* Method-not-found response that names it does not
LongRun == "a..a"

\* number of bytes serde_json writes between the quotes for a text given as a
\* sequence of pieces: for each character what EscapeByte writes for it, two
\* bytes for '"', '\' and the control characters with a short escape, six
\* for the other control characters, and one for any other character
RECURSIVE TextLen(_)
TextLen(s) ==
    LET RECURSIVE Written(_)
        Written(piece) ==
            IF piece = "" THEN 0
            ELSE Len(EscapeByte(CharByte(Head(piece)))) + Written(Tail(piece))
    IN  IF s = << >> THEN 0
        ELSE (IF Head(s) = LongRun THEN MaxFrameLength - 38 ELSE Written(Head(s)))
             + TextLen(Tail(s))

\* number of characters serde_json writes for the elements of a byte string:
\* the decimal digits of each byte, and a comma between two bytes
RECURSIVE JsonElementsLen(_)
JsonElementsLen(b) ==
    IF b = << >> THEN 0
    ELSE (IF Head(b) = -1 THEN 4 * 16 * 1024 * 1024 - 1 ELSE Digits(Head(b)))
         + (IF Tail(b) = << >> THEN 0 ELSE 1)
         + JsonElementsLen(Tail(b))

\* Bytes is written as an array of numbers
JsonArrayLen(b) == 2 + JsonElementsLen(b)

\* number of bytes of the envelope in JSON: {"id":..,"method":"..","payload":[..]}
\* for a Request and {"id":..,"payload":..,"error":..} for a Response, an
\* absent payload or error written as null
EncodedLen(msg) ==
    IF "method" \in DOMAIN msg
    THEN 30 + Digits(msg.id) + TextLen(msg.method) + JsonArrayLen(msg.payload)
    ELSE 27 + Digits(msg.id)
            + (IF msg.payload = None THEN 4 ELSE JsonArrayLen(msg.payload[1]))
            + (IF msg.error = None THEN 4 ELSE 2 + TextLen(msg.error[1]))

\* crate::serialize(&msg, format): the frame written for msg
serialize(msg) == Frame(EncodedLen(msg), TRUE, msg)

\* crate::deserialize(&bytes, format)
deserialize(frame) == [ok |-> frame.valid, val |-> frame.msg]

\* the codec refuses every frame whose length prefix reaches max_frame_length
FrameTooBigAtLimit(frame) == frame.len >= MaxFrameLength

\* the codec refuses a frame whose length prefix is over max_frame_length:
\* MessageStream::receive() returns Err
FrameTooBig(frame) == frame.len > MaxFrameLength

\* Result<Bytes, Error> as call() and the oneshot channel carry it; from_id and
\* from_call record the response a delivered result was built from
Result(kind, bytes, msg, from_id, from_call) ==
    [kind |-> kind, bytes |-> bytes, msg |-> msg, from_id |-> from_id, from_call |-> from_call]

NoResult == Result("none", << >>, << >>, 0, NoCall)

ErrTimeout == Result("Timeout", << >>, << >>, 0, NoCall)

ErrConnectionClosed == Result("ConnectionClosed", << >>, << >>, 0, NoCall)

ErrSerialization == Result("Serialization", << >>, << >>, 0, NoCall)

ErrDeserialization == Result("Deserialization", << >>, << >>, 0, NoCall)

ErrWebTransport == Result("WebTransport", << >>, << "Failed to send request" >>, 0, NoCall)

\* the receiver's view of a oneshot channel
RxEmpty == [st |-> "empty", val |-> NoResult]

RxDropped == [st |-> "dropped", val |-> NoResult]

RxGone == [st |-> "gone", val |-> NoResult]

RxValue(v) == [st |-> "value", val |-> v]

IdleCall ==
    [pc |-> "idle", id |-> 0, method |-> << >>, payload |-> << >>, result |-> NoResult,
     ready |-> FALSE, afterClose |-> FALSE, afterReturn |-> FALSE]

EmptyPending == [i \in Ids |-> NoCall]

\* an entry of Server.services: the handle registered under a name
Registered(name, handle) == [name |-> name, handle |-> handle]

\* no register_service() call was made yet
NoRegistration == [name |-> << >>, handle |-> 0, result |-> "none"]

\* the arguments of a service.call(): the handle it is made on, the method
\* name and the payload
ServiceArgs(handle, method, payload) == [handle |-> handle, method |-> method, payload |-> payload]

NoArgs == ServiceArgs(0, << >>, << >>)

\* no connection task
IdleConnection == [pc |-> "off", sessions |-> << >>]

\* Result<(), Error> of validate_connection_params()
ParamsResult(kind, msg) == [kind |-> kind, msg |-> msg]

\* the certificate and key files of a server, and the CA file of a client
CertFile == "cert.pem"

KeyFile == "key.pem"

CaFile == "ca.pem"

\* a call made with a Config: the fields of the Config (cert_path and key_path
\* set and ca_path absent unless said otherwise), what the call returned, and
\* the files it read
ParamsCall(pc, keep_alive_ms, idle_timeout_ms, max_concurrent_streams, result) ==
    [pc |-> pc, keep_alive_ms |-> keep_alive_ms, idle_timeout_ms |-> idle_timeout_ms,
     max_concurrent_streams |-> max_concurrent_streams, result |-> result,
     cert_path |-> Some(CertFile), key_path |-> Some(KeyFile), ca_path |-> None,
     reads |-> << >>]

\* no validate_connection_params() call
NoParams == ParamsCall("off", None, None, 0, ParamsResult("none", << >>))

\* no serialize() call
NoCodec == [pc |-> "off", value |-> NoRequest, format |-> "Json", bytes |-> << >>,
            back |-> [ok |-> FALSE, val |-> NoRequest], done |-> {}]

\* serve() not called, the endpoint open, no connection so far
IdleServe == [pc |-> "off", result |-> "none", endpoint |-> "open", conns |-> << >>,
              closedAt |-> 0]

\* the client's mutexes
Mutexes == { "session", "message_stream", "pending", "next_id" }

\* the tasks that take them: the call() and close() invocations, connect()
\* and the response handler
Task(kind, n) == [kind |-> kind, n |-> n]

Tasks ==
    { Task("call", k) : k \in Calls } \cup { Task("close", c) : c \in 1..MaxCloses }
    \cup { Task("connect", 0), Task("handler", 0) }

NoTask == Task("none", 0)

\* every mutex free and every task at its first step
NoLocks == [owner |-> [m \in Mutexes |-> NoTask], pc |-> [t \in Tasks |-> 1]]

\* Result<T, Error> of retry_with_backoff(): the invocation of f it comes from
RetryResult(kind, of) == [kind |-> kind, of |-> of]

\* a retry_with_backoff() call: its arguments (durations in milliseconds), its
\* locals delay and retry_count, the number of invocations of f made, the
\* durations slept, and what it returned
RetryCall(pc, initial_delay, max_delay, max_retries) ==
    [pc |-> pc, initial_delay |-> initial_delay, max_delay |-> max_delay,
     max_retries |-> max_retries, delay |-> initial_delay, retry_count |-> 0,
     invocations |-> 0, sleeps |-> << >>, result |-> RetryResult("none", 0)]

\* no retry_with_backoff() call
NoRetry == RetryCall("off", 0, 0, 0)

(* ------------------------------ Init ---------------------------------- *)

\* Client::new, and a server with its services registered, not yet connected
Init ==
    /\ session = FALSE
    /\ message_stream = "None"
    /\ pending = EmptyPending
    /\ next_id = 0
    /\ call = [k \in CallIds |-> IdleCall]
    /\ rx = [k \in CallIds |-> RxGone]
    /\ connect = "idle"
    /\ closer = [pc |-> "idle", open |-> FALSE, returned |-> 0, afterConnect |-> FALSE,
                 awaiting |-> {}, drained |-> {}]
    /\ handler = [pc |-> "none", resp |-> NoResponse, sender |-> NoCall, log |-> << >>]
    /\ conn = "none"
    /\ c2s = << >>
    /\ s2c = << >>
    /\ srv = [pc |-> "off", req |-> NoRequest, args |-> NoArgs]
    /\ peer = 0
    /\ server = [services |-> {Registered(n, 1) : n \in services}, last |-> NoRegistration]
    /\ hconn = IdleConnection
    /\ params = NoParams
    /\ codec = NoCodec
    /\ accept = IdleServe
    /\ locks = NoLocks
    /\ retry = NoRetry

(* ------------------- locks held across suspension points -------------- *)

\* close() holds session_guard from its first line until it returns
SessionLockFree == closer.pc = "idle"

\* close() holds stream_guard from "Close message stream" until it returns
StreamLockFree == closer.pc # "drain"

(* --------------------------- oneshot channel -------------------------- *)

\* the receiver of call k exists from oneshot::channel() until call() returns
ReceiverAlive(k) == call[k].pc \in {"send", "await"}

\* sender.send(v) for the senders of the calls in S: the value is stored when
\* the receiver still exists, and the send fails silently otherwise
SendAll(S, v) ==
    [k \in CallIds |-> IF k \in S /\ ReceiverAlive(k) /\ rx[k].st = "empty"
                     THEN RxValue(v) ELSE rx[k]]

\* dropping the sender of call k without sending: the receiver sees RecvError
DropSender(f, k) ==
    IF k # NoCall /\ ReceiverAlive(k) /\ f[k].st = "empty"
    THEN [f EXCEPT ![k] = RxDropped] ELSE f

(* ------------------------------ Client::call -------------------------- *)

SaturatingAdd1(id) == IF id + 1 < IdSpace THEN id + 1 ELSE id

\* wrapping_add(1) on the id counter
WrappingAdd1(id) == (id + 1) % IdSpace

\* the calls that had returned Ok, RpcFailed or Timeout
ReturnedCalls ==
    {j \in CallIds : call[j].pc = "done" /\ call[j].result.kind \in {"Ok", "RpcFailed", "Timeout"}}

\* call(method, request) up to "Get next request ID": the request p is
\* serialized as the payload and the id is read from the counter, which is
\* advanced
CallAllocId(k, m, p) ==
    /\ call[k].pc = "idle"
    /\ \A j \in CallIds : j < k => call[j].pc # "idle"
    /\ call' = [call EXCEPT ![k] =
            [pc |-> "register", id |-> next_id, method |-> m, payload |-> to_vec(p),
             result |-> NoResult,
             ready |-> (connect = "done"),
             afterClose |-> closer.afterConnect,
             afterReturn |-> (ReturnedCalls # {})]]
    /\ next_id' = WrappingAdd1(next_id)
    /\ UNCHANGED << others, session, message_stream, pending, rx, connect, closer, handler,
                    conn, c2s, s2c, srv >>

\* call(method, request) when "Serialize request payload" fails: the ? operator
\* returns the error before the id counter is read
CallSerializeError(k) ==
    /\ call[k].pc = "idle"
    /\ \A j \in CallIds : j < k => call[j].pc # "idle"
    /\ call' = [call EXCEPT ![k].pc = "done", ![k].result = ErrSerialization]
    /\ UNCHANGED << others, session, message_stream, pending, next_id, rx, connect, closer,
                    handler, conn, c2s, s2c, srv >>

\* pending_guard.insert(id, tx): an entry already stored under id is replaced
\* and its sender dropped
PendingInsert(id, k) == [pending EXCEPT ![id] = k]

\* "Create response channel" and "Register pending request"
CallRegister(k) ==
    /\ call[k].pc = "register"
    /\ pending' = PendingInsert(call[k].id, k)
    /\ call' = [call EXCEPT ![k].pc = "send"]
    /\ rx' = [DropSender(rx, pending[call[k].id]) EXCEPT ![k] = RxEmpty]
    /\ UNCHANGED << others, session, message_stream, next_id, connect, closer, handler,
                    conn, c2s, s2c, srv >>

\* what call() does under the message_stream lock: the result it returns at
\* once, or NoResult when the request frame was written
SendOutcome(frame) ==
    IF message_stream = "None" THEN ErrConnectionClosed
    ELSE IF FrameTooBig(frame) \/ conn # "up" THEN ErrWebTransport
    ELSE NoResult

\* "Serialize and send request"
CallSend(k) ==
    /\ call[k].pc = "send"
    /\ StreamLockFree
    /\ LET request_bytes == serialize(Request(call[k].id, call[k].method, call[k].payload, k))
       IN  IF SendOutcome(request_bytes) = NoResult
           THEN /\ c2s' = Append(c2s, request_bytes)
                /\ call' = [call EXCEPT ![k].pc = "await"]
                /\ rx' = rx
           ELSE /\ c2s' = c2s
                /\ call' = [call EXCEPT ![k].pc = "done",
                                        ![k].result = SendOutcome(request_bytes)]
                /\ rx' = [rx EXCEPT ![k] = RxGone]
    /\ UNCHANGED << others, session, message_stream, pending, next_id, connect, closer,
                    handler, conn, s2c, srv >>

\* "Wait for response with timeout": the deadline expires first
CallTimeout(k) ==
    /\ call[k].pc = "await"
    /\ rx[k].st = "empty"
    /\ call' = [call EXCEPT ![k].pc = "done", ![k].result = ErrTimeout]
    /\ rx' = [rx EXCEPT ![k] = RxGone]
    /\ UNCHANGED << others, session, message_stream, pending, next_id, connect, closer, handler,
                    conn, c2s, s2c, srv >>

\* what call() returns for what its receiver yields: RecvError is
\* ConnectionClosed, a value is the result the sender stored
AwaitResult(r) == IF r.st = "dropped" THEN ErrConnectionClosed ELSE r.val

\* "Deserialize response": what call() returns for the result its receiver
\* yielded. The bytes of an Ok are deserialized, and the ? operator returns the
\* error when they do not decode; bytes then holds the decoded value
CallResult(res) ==
    IF res.kind # "Ok" THEN res
    ELSE IF from_slice(res.bytes).ok THEN [res EXCEPT !.bytes = from_slice(res.bytes).val]
    ELSE ErrDeserialization

\* "Wait for response with timeout": the receiver completes first, and the
\* response is deserialized
CallReturn(k) ==
    /\ call[k].pc = "await"
    /\ rx[k].st \in {"value", "dropped"}
    /\ call' = [call EXCEPT ![k].pc = "done", ![k].result = CallResult(AwaitResult(rx[k]))]
    /\ rx' = [rx EXCEPT ![k] = RxGone]
    /\ UNCHANGED << others, session, message_stream, pending, next_id, connect, closer,
                    handler, conn, c2s, s2c, srv >>

(* ---------------------- Client::start_response_handler ---------------- *)

\* the spawned task's first block: guard.take(); handler.log holds the lines
\* the task has logged
HandlerTake ==
    /\ handler.pc = "start"
    /\ StreamLockFree
    /\ IF message_stream = "Some"
       THEN /\ handler' = [handler EXCEPT !.pc = "recv"]
            /\ message_stream' = "None"
       ELSE /\ handler' = [handler EXCEPT !.pc = "failed",
                                          !.log = Append(@, "Message stream not initialized")]
            /\ message_stream' = message_stream
    /\ UNCHANGED << others, session, pending, next_id, call, rx, connect, closer, conn,
                    c2s, s2c, srv >>

PendingRemoveKept(id) == pending

\* pending_guard.remove(&response.id)
PendingRemove(id) == [pending EXCEPT ![id] = NoCall]

\* the handler after the removal of the sender stored under the id of
\* response: it goes on to send the result when there was one, and else logs
\* "No pending request found" and goes back to receive()
AfterRemove(response) ==
    IF pending[response.id] # NoCall
    THEN [handler EXCEPT !.pc = "deliver", !.sender = pending[response.id]]
    ELSE [pc |-> "recv", resp |-> NoResponse, sender |-> NoCall,
          log |-> Append(handler.log, "No pending request found")]

\* the handler after a frame that does not deserialize: it logs "Failed to
\* deserialize response" and goes back to receive()
AfterDeserializeErrorBreaks ==
    [handler EXCEPT !.pc = "exited", !.log = Append(@, "Failed to deserialize response")]

AfterDeserializeError ==
    [handler EXCEPT !.log = Append(@, "Failed to deserialize response")]

\* stream.receive() yields a frame (one that arrived before the transport
\* went down may still be read): a frame that does not deserialize is skipped,
\* and else the handler logs "Received response for request" and goes on to
\* the pending table
HandlerReceive ==
    /\ handler.pc = "recv"
    /\ s2c # << >>
    /\ ~FrameTooBig(Head(s2c))
    /\ s2c' = Tail(s2c)
    /\ handler' = IF deserialize(Head(s2c)).ok
                  THEN [pc |-> "remove", resp |-> deserialize(Head(s2c)).val,
                        sender |-> NoCall,
                        log |-> Append(handler.log, "Received response for request")]
                  ELSE AfterDeserializeError
    /\ UNCHANGED << others, session, message_stream, pending, next_id, call, rx, connect,
                    closer, conn, c2s, srv >>

\* "Find corresponding pending request": under the pending lock the sender
\* stored under the id of the response is taken out of the table
HandlerRemove ==
    /\ handler.pc = "remove"
    /\ pending' = PendingRemove(handler.resp.id)
    /\ handler' = AfterRemove(handler.resp)
    /\ UNCHANGED << others, session, message_stream, next_id, call, rx, connect, closer,
                    conn, c2s, s2c, srv >>

\* the result built from a response: error present is RpcFailed, else the
\* payload, or empty bytes when the payload is absent
ResponseResult(r) ==
    IF r.error # None
    THEN Result("RpcFailed", << >>, r.error[1], r.id, r.origin)
    ELSE Result("Ok", IF r.payload # None THEN r.payload[1] ELSE << >>, << >>, r.id, r.origin)

\* "Send response to waiting caller"
HandlerDeliver ==
    /\ handler.pc = "deliver"
    /\ rx' = SendAll({handler.sender}, ResponseResult(handler.resp))
    /\ handler' = [pc |-> "recv", resp |-> NoResponse, sender |-> NoCall,
                   log |-> IF rx' = rx
                           THEN Append(handler.log, "Failed to send response to caller")
                           ELSE handler.log]
    /\ UNCHANGED << others, session, message_stream, pending, next_id, call, connect,
                    closer, conn, c2s, s2c, srv >>

\* stream.receive() yields an error (err), which is logged, or end-of-stream:
\* the handler leaves its loop. A frame over the length limit is an error
HandlerLeave(err) ==
    /\ handler.pc = "recv"
    /\ conn = "down" \/ (s2c # << >> /\ FrameTooBig(Head(s2c)))
    /\ (s2c # << >> /\ FrameTooBig(Head(s2c))) => err
    /\ handler' = [handler EXCEPT
                      !.pc = "left",
                      !.log = IF err THEN Append(@, "Error receiving response") ELSE @]
    /\ UNCHANGED << others, session, message_stream, pending, next_id, call, rx, connect,
                    closer, conn, c2s, s2c, srv >>

\* "Put the message stream back": under the message_stream lock the stream is
\* stored in the slot again, and the task ends
HandlerExit ==
    /\ handler.pc = "left"
    /\ StreamLockFree
    /\ message_stream' = "Some"
    /\ handler' = [handler EXCEPT !.pc = "exited",
                                  !.log = Append(@, "Response handler exited")]
    /\ UNCHANGED << others, session, pending, next_id, call, rx, connect, closer, conn,
                    c2s, s2c, srv >>

(* ------------------------------ Client::connect ----------------------- *)

\* the QUIC, HTTP/3 and WebTransport handshakes and open_bi(): when they
\* succeed (ok) the server session accepts the stream, and when one of them
\* fails the ? operator returns its error from connect(), the client as it was
ConnectEstablish(ok) ==
    /\ connect = "idle"
    /\ connect' = IF ok THEN "session" ELSE "failed"
    /\ conn' = IF ok THEN "up" ELSE conn
    /\ srv' = IF ok THEN [srv EXCEPT !.pc = "recv"] ELSE srv
    /\ UNCHANGED << others, session, message_stream, pending, next_id, call, rx, closer,
                    handler, c2s, s2c >>

\* *session_guard = Some(session)
ConnectSetSession ==
    /\ connect = "session"
    /\ SessionLockFree
    /\ session' = TRUE
    /\ connect' = "stream"
    /\ UNCHANGED << others, message_stream, pending, next_id, call, rx, closer, handler,
                    conn, c2s, s2c, srv >>

\* *stream_guard = Some(message_stream), then start_response_handler() spawns
\* the task and connect() returns Ok
ConnectSetStream ==
    /\ connect = "stream"
    /\ StreamLockFree
    /\ message_stream' = "Some"
    /\ handler' = [handler EXCEPT !.pc = "start"]
    /\ connect' = "done"
    /\ UNCHANGED << others, session, pending, next_id, call, rx, closer, conn, c2s, s2c, srv >>

(* ------------------------------ Client::close ------------------------- *)

\* "Close session if open"
CloseSession ==
    /\ closer.pc = "idle"
    /\ closer.returned < MaxCloses
    /\ closer' = [closer EXCEPT !.pc = "stream", !.open = (connect = "done")]
    /\ session' = FALSE
    /\ conn' = IF session /\ conn = "up" THEN "down" ELSE conn
    /\ UNCHANGED << others, message_stream, pending, next_id, call, rx, connect, handler,
                    c2s, s2c, srv >>

\* close() goes on without clearing the message stream slot
CloseStreamKept ==
    /\ closer.pc = "stream"
    /\ closer' = [closer EXCEPT !.pc = "drain"]
    /\ UNCHANGED << others, session, message_stream, pending, next_id, call, rx, connect,
                    handler, conn, c2s, s2c, srv >>

\* "Close message stream"
CloseStream ==
    /\ closer.pc = "stream"
    /\ closer' = [closer EXCEPT !.pc = "drain"]
    /\ message_stream' = "None"
    /\ UNCHANGED << others, session, pending, next_id, call, rx, connect, handler, conn,
                    c2s, s2c, srv >>

\* the calls whose senders are stored in the pending table
PendingCalls == {pending[i] : i \in Ids} \ {NoCall}

\* close() returns without clearing the pending table
CloseDrainSkipped ==
    /\ closer.pc = "drain"
    /\ closer' = [closer EXCEPT !.pc = "idle", !.open = FALSE, !.returned = @ + 1,
                                !.afterConnect = (@ \/ closer.open),
                                !.awaiting = @ \cup {k \in CallIds : call[k].pc = "await"},
                                !.drained = @ \cup {k \in PendingCalls : call[k].pc = "await"}]
    /\ UNCHANGED << others, session, message_stream, pending, next_id, call, rx, connect,
                    handler, conn, c2s, s2c, srv >>

\* "Clear pending requests with errors", and close() returns Ok
CloseDrain ==
    /\ closer.pc = "drain"
    /\ rx' = SendAll(PendingCalls, ErrConnectionClosed)
    /\ pending' = EmptyPending
    /\ closer' = [closer EXCEPT !.pc = "idle", !.open = FALSE, !.returned = @ + 1,
                                !.afterConnect = (@ \/ closer.open),
                                !.awaiting = @ \cup {k \in CallIds : call[k].pc = "await"},
                                !.drained = @ \cup {k \in PendingCalls : call[k].pc = "await"}]
    /\ UNCHANGED << others, session, message_stream, next_id, call, connect, handler, conn,
                    c2s, s2c, srv >>

(* ------------------------------ handle_session ------------------------ *)

\* format!("{}.{}", service, method)
format_method_name(service, method) == service \o << "." >> \o method

\* position of the first '.' of s, or 0
FirstDot(s) ==
    IF \E i \in 1..Len(s) : s[i] = "."
    THEN CHOOSE i \in 1..Len(s) : s[i] = "." /\ \A j \in 1..(i - 1) : s[j] # "."
    ELSE 0

\* the method string is split at its last '.'
RSplitn2(s) ==
    IF FirstDot(s) = 0 THEN << s >>
    ELSE LET i == CHOOSE i \in 1..Len(s) : s[i] = "." /\ \A j \in (i + 1)..Len(s) : s[j] # "."
         IN << SubSeq(s, 1, i - 1), SubSeq(s, i + 1, Len(s)) >>

\* request.method.splitn(2, '.').collect()
Splitn2(s) ==
    IF FirstDot(s) = 0 THEN << s >>
    ELSE << SubSeq(s, 1, FirstDot(s) - 1), SubSeq(s, FirstDot(s) + 1, Len(s)) >>

\* err.to_string(): the Display text of the variant, followed by its argument
\* when it has one
ErrorToString(e) ==
    CASE e.kind = "Io" -> << "IO error: " >> \o e.arg
      [] e.kind = "Quic" -> << "QUIC connection error: " >> \o e.arg
      [] e.kind = "Http3" -> << "HTTP/3 error: " >> \o e.arg
      [] e.kind = "WebTransport" -> << "WebTransport error: " >> \o e.arg
      [] e.kind = "Serialization" -> << "Serialization error: " >> \o e.arg
      [] e.kind = "Deserialization" -> << "Deserialization error: " >> \o e.arg
      [] e.kind = "Encoding" -> << "Protocol buffer encoding error: " >> \o e.arg
      [] e.kind = "Decoding" -> << "Protocol buffer decoding error: " >> \o e.arg
      [] e.kind = "MethodNotFound" -> << "Method not found: " >> \o e.arg
      [] e.kind = "Timeout" -> << "Request timeout" >>
      [] e.kind = "RpcFailed" -> << "RPC call failed: " >> \o e.arg
      [] e.kind = "ConnectionClosed" -> << "Connection closed" >>
      [] e.kind = "InvalidConfig" -> << "Invalid configuration: " >> \o e.arg
      [] e.kind = "AuthenticationFailed" -> << "Authentication failed: " >> \o e.arg
      [] e.kind = "CertificateError" -> << "Certificate error: " >> \o e.arg
      [] e.kind = "Other" -> e.arg

\* a registered service (every handle is an EchoService): method "e" echoes
\* its input, any other method is MethodNotFound
ServiceCall(service, method, payload) ==
    IF method = << "e" >> THEN [ok |-> TRUE, bytes |-> payload, err |-> [kind |-> "none", arg |-> << >>]]
    ELSE [ok |-> FALSE, bytes |-> << >>, err |-> [kind |-> "MethodNotFound", arg |-> method]]

ServiceTimeout == [ok |-> FALSE, bytes |-> << >>, err |-> [kind |-> "Timeout", arg |-> << >>]]

\* the response sent for a method string that does not split in two
InvalidMethodResponse(req) ==
    Response(req.id, None,
             Some(<< "Invalid method format. Expected 'service.method', got '" >>
                  \o req.method \o << "'" >>),
             req.origin)

\* the response sent when the service is not registered
ServiceNotFoundResponse(req) ==
    Response(req.id, None, Some(<< "Service not found: " >> \o Splitn2(req.method)[1]), req.origin)

ResultResponseBoth(req, res) ==
    IF res.ok THEN Response(req.id, Some(res.bytes), None, req.origin)
    ELSE Response(req.id, Some(<< >>), Some(ErrorToString(res.err)), req.origin)

\* "Create response" from the result of the service call
ResultResponse(req, res) ==
    IF res.ok THEN Response(req.id, Some(res.bytes), None, req.origin)
    ELSE Response(req.id, None, Some(ErrorToString(res.err)), req.origin)

\* no handle: services_read.get() found nothing
NoService == 0

\* services_read.get(service_name): the handle registered under name
Lookup(name) ==
    IF \E e \in server.services : e.name = name
    THEN (CHOOSE e \in server.services : e.name = name).handle
    ELSE NoService

\* what the session does with a decoded request before any service runs: the
\* error response it sends, or NoResponse when the service is to be called
EarlyResponse(req) ==
    IF Len(Splitn2(req.method)) # 2 THEN InvalidMethodResponse(req)
    ELSE IF Lookup(Splitn2(req.method)[1]) = NoService THEN ServiceNotFoundResponse(req)
    ELSE NoResponse

\* service.call(method_name, request.payload) as the session makes it for req
CallArgs(req) ==
    ServiceArgs(Lookup(Splitn2(req.method)[1]), Splitn2(req.method)[2], req.payload)

\* message_stream.receive().await? on a frame over the length limit returns
\* Err, which ends the session; the body of the frame is not read. Any other
\* frame is taken off the stream (one that arrived before the transport went
\* down may still be read): one that does not deserialize ends the
\* session through the ? operator too; for a request the session goes on to
\* send an error response, or the service call is started and awaited
SrvReceive ==
    /\ srv.pc = "recv"
    /\ c2s # << >>
    /\ c2s' = IF FrameTooBig(Head(c2s)) THEN c2s ELSE Tail(c2s)
    /\ IF FrameTooBig(Head(c2s)) \/ ~deserialize(Head(c2s)).ok
       THEN /\ s2c' = s2c
            /\ srv' = [pc |-> "closed", req |-> NoRequest, args |-> NoArgs]
       ELSE LET request == deserialize(Head(c2s)).val IN
            /\ s2c' = s2c
            /\ srv' = IF EarlyResponse(request) # NoResponse
                      THEN [pc |-> "reply", req |-> request, args |-> NoArgs]
                      ELSE [pc |-> "call", req |-> request, args |-> CallArgs(request)]
    /\ UNCHANGED << others, session, message_stream, pending, next_id, call, rx, connect,
                    closer, handler, conn >>

SrvSendStays(r) ==
    /\ srv.pc \in {"reply", "call"}
    /\ IF conn = "up" /\ ~FrameTooBig(serialize(r))
       THEN /\ s2c' = Append(s2c, serialize(r))
            /\ srv' = srv
       ELSE /\ s2c' = s2c
            /\ srv' = [pc |-> "closed", req |-> NoRequest, args |-> NoArgs]
    /\ UNCHANGED << others, session, message_stream, pending, next_id, call, rx, connect,
                    closer, handler, conn, c2s >>

\* the session sends response r: message_stream.send(..).await? ends the
\* session when the transport is down or the codec refuses the frame, which
\* is longer than max_frame_length; nothing is written then
SrvSend(r) ==
    /\ srv.pc \in {"reply", "call"}
    /\ IF conn = "up" /\ ~FrameTooBig(serialize(r))
       THEN /\ s2c' = Append(s2c, serialize(r))
            /\ srv' = [pc |-> "recv", req |-> NoRequest, args |-> NoArgs]
       ELSE /\ s2c' = s2c
            /\ srv' = [pc |-> "closed", req |-> NoRequest, args |-> NoArgs]
    /\ UNCHANGED << others, session, message_stream, pending, next_id, call, rx, connect,
                    closer, handler, conn, c2s >>

\* "Serialize and send error response" for a request that is answered without
\* a service call
SrvReply ==
    /\ srv.pc = "reply"
    /\ SrvSend(EarlyResponse(srv.req))

\* timeout.await yields the result of the service call
SrvCallReturn ==
    /\ srv.pc = "call"
    /\ SrvSend(ResultResponse(srv.req,
           ServiceCall(srv.args.handle, srv.args.method, srv.args.payload)))

\* timeout.await yields Elapsed: Err(Error::Timeout)
SrvCallTimeout ==
    /\ srv.pc = "call"
    /\ SrvSend(ResultResponse(srv.req, ServiceTimeout))

\* message_stream.receive() yields end-of-stream or an error
SrvEnd ==
    /\ srv.pc = "recv"
    /\ conn = "down"
    /\ srv' = [srv EXCEPT !.pc = "closed"]
    /\ UNCHANGED << others, session, message_stream, pending, next_id, call, rx, connect,
                    closer, handler, conn, c2s, s2c >>

(* ------------------------------ environment --------------------------- *)

\* the QUIC connection is lost (peer gone, idle timeout)
TransportFail ==
    /\ conn = "up"
    /\ conn' = "down"
    /\ UNCHANGED << others, session, message_stream, pending, next_id, call, rx, connect,
                    closer, handler, c2s, s2c, srv >>

(* ------------------------------ specification ------------------------- *)

Next ==
    \/ \E k \in Calls, m \in Methods, p \in Payloads : CallAllocId(k, m, p)
    \/ \E k \in Calls : CallRegister(k)
    \/ \E k \in Calls : CallSend(k)
    \/ \E k \in Calls : CallTimeout(k)
    \/ \E k \in Calls : CallReturn(k)
    \/ HandlerTake
    \/ HandlerReceive
    \/ HandlerRemove
    \/ HandlerDeliver
    \/ \E err \in BOOLEAN : HandlerLeave(err)
    \/ HandlerExit
    \/ \E ok \in BOOLEAN : ConnectEstablish(ok)
    \/ ConnectSetSession
    \/ ConnectSetStream
    \/ CloseSession
    \/ CloseStream
    \/ CloseDrain
    \/ SrvReceive
    \/ SrvReply
    \/ SrvCallReturn
    \/ SrvCallTimeout
    \/ SrvEnd
    \/ TransportFail

Spec == Init /\ [][Next]_vars

\* the echo request "e.e" with payload 0x48 0x69
EchoMethod == << "e", ".", "e" >>

EchoPayload == << 72, 105 >>

\* the id wrap-around scenario: one connected client, no close() and no
\* transport failure, IdSpace + 1 echo calls
NextWrap ==
    \/ \E k \in WrapCalls : CallAllocId(k, EchoMethod, EchoPayload)
    \/ \E k \in WrapCalls : CallRegister(k)
    \/ \E k \in WrapCalls : CallSend(k)
    \/ \E k \in WrapCalls : CallTimeout(k)
    \/ \E k \in WrapCalls : CallReturn(k)
    \/ HandlerTake
    \/ HandlerReceive
    \/ HandlerRemove
    \/ HandlerDeliver
    \/ \E ok \in BOOLEAN : ConnectEstablish(ok)
    \/ ConnectSetSession
    \/ ConnectSetStream
    \/ SrvReceive
    \/ SrvCallReturn

SpecWrap == Init /\ [][NextWrap]_vars

(* ---------------- the session serving a remote client ----------------- *)

\* method strings a remote client sends: "e.e", "e.a.b" (dots in the method
\* part), "n.x" (no such service) and "ee" (no dot)
PeerMethods ==
    { << "e", ".", "e" >>, << "e", ".", "a", ".", "b" >>, << "n", ".", "x" >>, << "e", "e" >> }

\* the frames a remote client writes: well-formed requests, bodies that do
\* not deserialize (an empty body among them), a request whose frame is
\* within max_frame_length and whose error response is not, a body of exactly
\* max_frame_length (the JSON text of a request followed by whitespace, which
\* serde_json::from_slice accepts), and frames whose length prefix is over
\* max_frame_length, whose body is never read
PeerFrames ==
    { serialize(Request(i, m, p, NoCall)) : i \in Ids, m \in PeerMethods, p \in Payloads }
    \cup { serialize(Request(0, << "e", ".", LongRun >>, << >>, NoCall)),
           Frame(0, FALSE, NoRequest), Frame(3, FALSE, NoRequest),
           Frame(MaxFrameLength, TRUE, Request(1, EchoMethod, EchoPayload, NoCall)),
           Frame(MaxFrameLength + 1, TRUE, Request(1, EchoMethod, EchoPayload, NoCall)),
           Frame(2 * MaxFrameLength, TRUE, Request(0, EchoMethod, EchoPayload, NoCall)) }

\* a remote client has its session accepted: session.accept_bi() yields its
\* bidirectional stream (ok) and handle_session starts its receive loop, or it
\* fails and handle_session returns the error
PeerConnect(ok) ==
    /\ conn = "none"
    /\ srv.pc = "off"
    /\ conn' = IF ok THEN "up" ELSE "down"
    /\ srv' = [srv EXCEPT !.pc = IF ok THEN "recv" ELSE "closed"]
    /\ UNCHANGED << session, message_stream, pending, next_id, call, rx, connect, closer,
                    handler, c2s, s2c, peer, server, hconn, params, codec,
                    accept, locks, retry >>

\* the remote client writes frame f on the stream
PeerSend(f) ==
    /\ conn = "up"
    /\ srv.pc # "off"
    /\ connect = "idle"
    /\ peer < MaxPeerFrames
    /\ peer' = peer + 1
    /\ c2s' = Append(c2s, f)
    /\ UNCHANGED << session, message_stream, pending, next_id, call, rx, connect, closer,
                    handler, conn, s2c, srv, server, hconn, params, codec,
                    accept, locks, retry >>

NextServer ==
    \/ \E ok \in BOOLEAN : PeerConnect(ok)
    \/ \E f \in PeerFrames : PeerSend(f)
    \/ SrvReceive
    \/ SrvReply
    \/ SrvCallReturn
    \/ SrvCallTimeout
    \/ SrvEnd
    \/ TransportFail

SpecServer == Init /\ [][NextServer]_vars

(* ---------------- the client connected to a remote server ------------- *)

\* the frames a remote server writes: responses with every combination of
\* payload (one that is the JSON text of a string, and one that is not) and
\* error present or absent, a body that does not deserialize, an
\* empty body, a body of exactly max_frame_length (the JSON text of a response
\* followed by whitespace, which serde_json::from_slice accepts) and a frame
\* whose length prefix is over max_frame_length, whose body is never read
PeerResponses ==
    { serialize(Response(i, pl, er, NoCall)) :
          i \in Ids, pl \in { None, Some(EchoPayload), Some(to_vec(EchoPayload)) },
          er \in { None, Some(<< "boom" >>) } }
    \cup { Frame(3, FALSE, NoResponse),
           Frame(0, FALSE, NoResponse),
           Frame(MaxFrameLength, TRUE, Response(0, Some(EchoPayload), None, NoCall)),
           Frame(MaxFrameLength + 1, TRUE, Response(0, Some(EchoPayload), None, NoCall)) }

\* the remote server writes frame f on the stream
PeerRespond(f) ==
    /\ conn = "up"
    /\ connect \in {"session", "stream", "done"}
    /\ peer < MaxPeerFrames
    /\ peer' = peer + 1
    /\ s2c' = Append(s2c, f)
    /\ UNCHANGED << session, message_stream, pending, next_id, call, rx, connect, closer,
                    handler, conn, c2s, srv, server, hconn, params, codec,
                    accept, locks, retry >>

\* the handshakes and open_bi() of connect() with a remote server, which
\* succeed (ok) or fail
ConnectRemote(ok) ==
    /\ connect = "idle"
    /\ conn = "none"
    /\ connect' = IF ok THEN "session" ELSE "failed"
    /\ conn' = IF ok THEN "up" ELSE conn
    /\ UNCHANGED << session, message_stream, pending, next_id, call, rx, closer,
                    handler, c2s, s2c, srv, peer, server, hconn, params, codec,
                    accept, locks, retry >>

\* one client making echo calls on a connection whose server side is the
\* remote server
NextDemux ==
    \/ \E k \in Calls : CallAllocId(k, EchoMethod, EchoPayload)
    \/ \E k \in Calls : CallRegister(k)
    \/ \E k \in Calls : CallSend(k)
    \/ \E k \in Calls : CallTimeout(k)
    \/ \E k \in Calls : CallReturn(k)
    \/ HandlerTake
    \/ HandlerReceive
    \/ HandlerRemove
    \/ HandlerDeliver
    \/ \E err \in BOOLEAN : HandlerLeave(err)
    \/ HandlerExit
    \/ \E ok \in BOOLEAN : ConnectRemote(ok)
    \/ ConnectSetSession
    \/ ConnectSetStream
    \/ \E f \in PeerResponses : PeerRespond(f)
    \/ TransportFail

SpecDemux == Init /\ [][NextDemux]_vars

\* the two ends of the framed stream, each with a remote peer: the session
\* serving a remote client, or the client connected to a remote server
NextFrames ==
    \/ \E ok \in BOOLEAN : PeerConnect(ok)
    \/ \E f \in PeerFrames : PeerSend(f)
    \/ SrvReceive
    \/ SrvReply
    \/ SrvCallReturn
    \/ SrvCallTimeout
    \/ SrvEnd
    \/ \E k \in Calls : CallAllocId(k, EchoMethod, EchoPayload)
    \/ \E k \in Calls : CallRegister(k)
    \/ \E k \in Calls : CallSend(k)
    \/ \E k \in Calls : CallTimeout(k)
    \/ \E k \in Calls : CallReturn(k)
    \/ HandlerTake
    \/ HandlerReceive
    \/ HandlerRemove
    \/ HandlerDeliver
    \/ \E err \in BOOLEAN : HandlerLeave(err)
    \/ HandlerExit
    \/ \E ok \in BOOLEAN : ConnectRemote(ok)
    \/ ConnectSetSession
    \/ ConnectSetStream
    \/ \E f \in PeerResponses : PeerRespond(f)
    \/ TransportFail

SpecFrames == Init /\ [][NextFrames]_vars

(* ------------------------ Server::register_service -------------------- *)

\* the names register_service() is called with
ServiceNames == { << "e" >>, << "n" >>, << "m" >> }

\* the service objects it is called with
Handles == 1..MaxHandles

\* HashMap::insert(name, service): the entry stored under name is replaced
Insert(map, name, handle) == { e \in map : e.name # name } \cup { Registered(name, handle) }

\* register_service(name, service): insert under the write lock, return Ok(())
RegisterService(name, handle) ==
    /\ server' = [services |-> Insert(server.services, name, handle),
                  last |-> [name |-> name, handle |-> handle, result |-> "Ok"]]
    /\ UNCHANGED << session, message_stream, pending, next_id, call, rx, connect, closer,
                    handler, conn, c2s, s2c, srv, peer, hconn, params, codec,
                    accept, locks, retry >>

NextRegistry == \E name \in ServiceNames, handle \in Handles : RegisterService(name, handle)

SpecRegistry == Init /\ [][NextRegistry]_vars

(* ------------------------ Server::handle_connection ------------------- *)

RpcPath == "/rpc"

\* the paths of the session requests made on the connection
Paths == { "/rpc", "/", "/rpc/x" }

\* the steps of handle_connection before its accept loop: the HTTP/3
\* connection is built, then the WebTransport acceptor
SetupOutcomes == { "ok", "h3_failed", "build_failed" }

\* "Create HTTP/3 connection" and "Create WebTransport session acceptor": when
\* both are built the accept loop starts, and when one fails the ? operator
\* returns its error (Http3 or WebTransport) from handle_connection
HandleConnection(outcome) ==
    /\ hconn.pc = "off"
    /\ hconn' = [hconn EXCEPT !.pc = IF outcome = "ok" THEN "accept" ELSE "failed"]
    /\ UNCHANGED << session, message_stream, pending, next_id, call, rx, connect, closer,
                    handler, conn, c2s, s2c, srv, peer, server, params, codec,
                    accept, locks, retry >>

\* every session request is accepted, whatever its path
SessionOutcomeAnyPath(path, ok) == IF ok THEN "spawned" ELSE "accept_failed"

\* one turn of the accept loop for a request to path; ok says whether the
\* accept() or reject() it awaits succeeds. A session is accepted only on
\* "/rpc", and then handle_session is spawned for it
SessionOutcome(path, ok) ==
    IF path = RpcPath
    THEN IF ok THEN "spawned" ELSE "accept_failed"
    ELSE IF ok THEN "rejected" ELSE "reject_failed"

\* acceptor.accept() yields a session request: a failed reject() returns from
\* handle_connection through the ? operator, every other outcome goes on to
\* the next request
SessionRequest(path, ok) ==
    /\ hconn.pc = "accept"
    /\ Len(hconn.sessions) < MaxSessions
    /\ hconn' = [pc |-> IF SessionOutcome(path, ok) = "reject_failed" THEN "failed" ELSE "accept",
                 sessions |-> Append(hconn.sessions,
                                     [path |-> path, outcome |-> SessionOutcome(path, ok)])]
    /\ UNCHANGED << session, message_stream, pending, next_id, call, rx, connect, closer,
                    handler, conn, c2s, s2c, srv, peer, server, params, codec,
                    accept, locks, retry >>

\* acceptor.accept() yields None: the connection is over
AcceptorEnd ==
    /\ hconn.pc = "accept"
    /\ hconn' = [hconn EXCEPT !.pc = "done"]
    /\ UNCHANGED << session, message_stream, pending, next_id, call, rx, connect, closer,
                    handler, conn, c2s, s2c, srv, peer, server, params, codec,
                    accept, locks, retry >>

NextConn ==
    \/ \E outcome \in SetupOutcomes : HandleConnection(outcome)
    \/ \E path \in Paths, ok \in BOOLEAN : SessionRequest(path, ok)
    \/ AcceptorEnd

SpecConn == Init /\ [][NextConn]_vars

(* ----------------------- validate_connection_params ------------------- *)

\* the keep_alive_ms arguments: absent, and values around the limit
KeepAlives == { None } \cup { Some(n) : n \in { 0, 99, 100, 101, 5000 } }

\* the idle_timeout_ms arguments: absent, and values around the limit
IdleTimeouts == { None } \cup { Some(n) : n \in { 0, 999, 1000, 1001, 30000 } }

\* the max_concurrent_streams arguments
StreamLimits == { 0, 1, 100, 999, 1000, 1001 }

\* the stream limit is refused from 1000 on
validate_connection_params_below(keep_alive_ms, idle_timeout_ms, max_concurrent_streams) ==
    IF keep_alive_ms # None /\ keep_alive_ms[1] < 100
    THEN ParamsResult("InvalidConfig", << "Keep-alive interval must be at least 100ms" >>)
    ELSE IF idle_timeout_ms # None /\ idle_timeout_ms[1] < 1000
    THEN ParamsResult("InvalidConfig", << "Idle timeout must be at least 1000ms" >>)
    ELSE IF max_concurrent_streams = 0 \/ max_concurrent_streams >= 1000
    THEN ParamsResult("InvalidConfig", << "Max concurrent streams must be between 1 and 1000" >>)
    ELSE ParamsResult("Ok", << >>)

\* the three checks in the order of the code, each returning at once
validate_connection_params(keep_alive_ms, idle_timeout_ms, max_concurrent_streams) ==
    IF keep_alive_ms # None /\ keep_alive_ms[1] < 100
    THEN ParamsResult("InvalidConfig", << "Keep-alive interval must be at least 100ms" >>)
    ELSE IF idle_timeout_ms # None /\ idle_timeout_ms[1] < 1000
    THEN ParamsResult("InvalidConfig", << "Idle timeout must be at least 1000ms" >>)
    ELSE IF max_concurrent_streams = 0 \/ max_concurrent_streams > 1000
    THEN ParamsResult("InvalidConfig", << "Max concurrent streams must be between 1 and 1000" >>)
    ELSE ParamsResult("Ok", << >>)

\* validate_connection_params() is called with arguments k, i, m
ValidateCall(k, i, m) ==
    /\ params.pc = "off"
    /\ params' = ParamsCall("called", k, i, m, ParamsResult("none", << >>))
    /\ UNCHANGED << session, message_stream, pending, next_id, call, rx, connect, closer,
                    handler, conn, c2s, s2c, srv, peer, server, hconn, codec,
                    accept, locks, retry >>

\* it returns
ValidateReturn ==
    /\ params.pc = "called"
    /\ params' = [params EXCEPT !.pc = "returned",
                                 !.result = validate_connection_params(params.keep_alive_ms,
                                                params.idle_timeout_ms,
                                                params.max_concurrent_streams)]
    /\ UNCHANGED << session, message_stream, pending, next_id, call, rx, connect, closer,
                    handler, conn, c2s, s2c, srv, peer, server, hconn, codec,
                    accept, locks, retry >>

NextParams ==
    \/ \E k \in KeepAlives, i \in IdleTimeouts, m \in StreamLimits : ValidateCall(k, i, m)
    \/ ValidateReturn

SpecParams == Init /\ [][NextParams]_vars

(* ----------------------- Client::new and Server::new ------------------- *)

\* the steps the environment can make fail: reading the CA file and adding
\* its certificate to the root store, reading the certificate and key files,
\* parsing them, a key file that holds no PKCS#8 key, a certificate that
\* with_single_cert refuses, and the creation of the endpoint
Failures ==
    { "read_ca", "add_ca", "read_cert", "read_key", "parse_cert", "parse_key", "no_key",
      "invalid_cert", "endpoint" }

\* what the environment lets the constructor do: the steps that fail
NewOutcomes == SUBSET Failures

\* config.build_client_config(): with ca_path set the file is read and its
\* bytes added to the root store as one certificate; the keep-alive interval
\* and the idle timeout are copied into the transport configuration as they are
build_client_config(ca_path, keep_alive_ms, idle_timeout_ms, max_concurrent_streams, env) ==
    IF ca_path # None /\ "read_ca" \in env
    THEN ParamsResult("CertificateError", << "Failed to read CA cert" >>)
    ELSE IF ca_path # None /\ "add_ca" \in env
    THEN ParamsResult("CertificateError", << "Failed to add CA cert" >>)
    ELSE ParamsResult("Ok", << >>)

\* Client::new(config): the client configuration is built and the endpoint
\* created
ClientNew(ca_path, keep_alive_ms, idle_timeout_ms, max_concurrent_streams, env) ==
    LET client_config == build_client_config(ca_path, keep_alive_ms, idle_timeout_ms,
                                             max_concurrent_streams, env)
    IN  IF client_config.kind # "Ok" THEN client_config
        ELSE IF "endpoint" \in env THEN ParamsResult("Quic", << "Failed to create endpoint" >>)
        ELSE ParamsResult("Ok", << >>)

\* config.build_server_config(): both paths are required, then the two files
\* are read, the certificates and the keys are parsed, the first key is taken
\* (Vec::remove(0) panics when there is none) and the pair is checked; the
\* three parameters are copied into the transport configuration as they are
build_server_config(cert_path, key_path, keep_alive_ms, idle_timeout_ms, max_concurrent_streams, env) ==
    IF cert_path = None
    THEN ParamsResult("InvalidConfig", << "Certificate file path is required for server" >>)
    ELSE IF key_path = None
    THEN ParamsResult("InvalidConfig", << "Private key file path is required for server" >>)
    ELSE IF "read_cert" \in env
    THEN ParamsResult("CertificateError", << "Failed to read certificate file" >>)
    ELSE IF "read_key" \in env
    THEN ParamsResult("CertificateError", << "Failed to read private key file" >>)
    ELSE IF "parse_cert" \in env
    THEN ParamsResult("CertificateError", << "Failed to parse certificate" >>)
    ELSE IF "parse_key" \in env
    THEN ParamsResult("CertificateError", << "Failed to parse private key" >>)
    ELSE IF "no_key" \in env
    THEN ParamsResult("Panic", << "removal index (is 0) should be < len (is 0)" >>)
    ELSE IF "invalid_cert" \in env
    THEN ParamsResult("CertificateError", << "Invalid certificate" >>)
    ELSE ParamsResult("Ok", << >>)

FilesReadCertFirst(cert_path, key_path, env) ==
    IF cert_path = None THEN << >>
    ELSE IF key_path = None \/ "read_cert" \in env THEN << cert_path[1] >>
    ELSE << cert_path[1], key_path[1] >>

\* the files config.build_server_config() calls std::fs::read on, in order
FilesRead(cert_path, key_path, env) ==
    IF cert_path = None \/ key_path = None THEN << >>
    ELSE IF "read_cert" \in env THEN << cert_path[1] >>
    ELSE << cert_path[1], key_path[1] >>

\* the file config.build_client_config() calls std::fs::read on
ClientFilesRead(ca_path) == IF ca_path = None THEN << >> ELSE << ca_path[1] >>

\* Server::new(config): the server configuration is built and the endpoint
\* created
ServerNew(cert_path, key_path, keep_alive_ms, idle_timeout_ms, max_concurrent_streams, env) ==
    LET server_config == build_server_config(cert_path, key_path, keep_alive_ms,
                                             idle_timeout_ms, max_concurrent_streams, env)
    IN  IF server_config.kind # "Ok" THEN server_config
        ELSE IF "endpoint" \in env THEN ParamsResult("Quic", << "Failed to create endpoint" >>)
        ELSE ParamsResult("Ok", << >>)

\* the ca_path of the Config
CaPaths == { None, Some(CaFile) }

\* Client::new() or Server::new() (who) is called with a Config of ca, k, i, m
NewCall(who, ca, k, i, m) ==
    /\ params.pc = "off"
    /\ params' = [ParamsCall(who, k, i, m, ParamsResult("none", << >>)) EXCEPT !.ca_path = ca]
    /\ UNCHANGED << session, message_stream, pending, next_id, call, rx, connect, closer,
                    handler, conn, c2s, s2c, srv, peer, server, hconn, codec,
                    accept, locks, retry >>

\* Client::new() returns
ClientNewReturn(env) ==
    /\ params.pc = "Client::new"
    /\ params' = [params EXCEPT !.pc = "client",
                                 !.result = ClientNew(params.ca_path, params.keep_alive_ms,
                                                      params.idle_timeout_ms,
                                                      params.max_concurrent_streams, env),
                                 !.reads = ClientFilesRead(params.ca_path)]
    /\ UNCHANGED << session, message_stream, pending, next_id, call, rx, connect, closer,
                    handler, conn, c2s, s2c, srv, peer, server, hconn, codec,
                    accept, locks, retry >>

\* Server::new() returns
ServerNewReturn(env) ==
    /\ params.pc = "Server::new"
    /\ params' = [params EXCEPT !.pc = "server",
                                 !.result = ServerNew(params.cert_path, params.key_path,
                                                      params.keep_alive_ms, params.idle_timeout_ms,
                                                      params.max_concurrent_streams, env),
                                 !.reads = FilesRead(params.cert_path, params.key_path, env)]
    /\ UNCHANGED << session, message_stream, pending, next_id, call, rx, connect, closer,
                    handler, conn, c2s, s2c, srv, peer, server, hconn, codec,
                    accept, locks, retry >>

NextNew ==
    \/ \E who \in { "Client::new", "Server::new" }, ca \in CaPaths,
          k \in KeepAlives, i \in IdleTimeouts, m \in StreamLimits : NewCall(who, ca, k, i, m)
    \/ \E env \in NewOutcomes : ClientNewReturn(env)
    \/ \E env \in NewOutcomes : ServerNewReturn(env)

SpecNew == Init /\ [][NextNew]_vars

(* --------------------- serialize() and deserialize() ------------------ *)

Formats == { "Json", "Protobuf" }

\* JSON values
JsonNull == [t |-> "null", v |-> << >>]

JsonNumber(n) == [t |-> "number", v |-> << n >>]

JsonString(s) == [t |-> "string", v |-> s]

JsonArray(b) == [t |-> "array", v |-> b]

\* serde_json::to_vec(value): an object with the fields of the struct in the
\* order of their declaration, Bytes as an array of numbers, None as null
to_json(x) ==
    IF "method" \in DOMAIN x
    THEN << << "id", JsonNumber(x.id) >>,
            << "method", JsonString(x.method) >>,
            << "payload", JsonArray(x.payload) >> >>
    ELSE << << "id", JsonNumber(x.id) >>,
            << "payload", IF x.payload = None THEN JsonNull ELSE JsonArray(x.payload[1]) >>,
            << "error", IF x.error = None THEN JsonNull ELSE JsonString(x.error[1]) >> >>

\* the bytes of a text given as a sequence of pieces
RECURSIVE TextBytes(_)
TextBytes(s) ==
    LET RECURSIVE PieceBytes(_)
        PieceBytes(piece) ==
            IF piece = "" THEN << >>
            ELSE << CharByte(Head(piece)) >> \o PieceBytes(Tail(piece))
    IN  IF s = << >> THEN << >> ELSE PieceBytes(Head(s)) \o TextBytes(Tail(s))

\* serde_json::from_slice(data): the fields of the struct are taken from the
\* members of the object, other members are ignored. A field that is missing,
\* given twice, or of another type is an error, save that an Option field may
\* be missing or null. id is a number of u64 (its upper bound is beyond the
\* integers of the model), Bytes is an array of numbers of u8 or a string,
\* whose bytes it takes
from_json(obj, kind) ==
    LET Count(key) == Cardinality({ i \in 1..Len(obj) : obj[i][1] = key })
        Value(key) == obj[CHOOSE i \in 1..Len(obj) : obj[i][1] = key][2]
        IsU64(j) == j.t = "number" /\ j.v[1] >= 0
        IsString(j) == j.t = "string"
        IsBytes(j) == \/ j.t = "string"
                      \/ j.t = "array" /\ \A i \in 1..Len(j.v) : j.v[i] \in 0..255
        BytesOf(j) == IF j.t = "string" THEN TextBytes(j.v) ELSE j.v
        Required(key, Is(_)) == Count(key) = 1 /\ Is(Value(key))
        Optional(key, Is(_)) ==
            Count(key) = 0 \/ (Count(key) = 1 /\ (Value(key).t = "null" \/ Is(Value(key))))
        IsNone(key) == Count(key) = 0 \/ Value(key).t = "null"
    IN  IF kind = "Request"
        THEN IF Required("id", IsU64) /\ Required("method", IsString)
                /\ Required("payload", IsBytes)
             THEN [ok |-> TRUE, val |-> Request(Value("id").v[1], Value("method").v,
                                                BytesOf(Value("payload")), NoCall)]
             ELSE [ok |-> FALSE, val |-> NoRequest]
        ELSE IF Required("id", IsU64) /\ Optional("payload", IsBytes)
                /\ Optional("error", IsString)
             THEN [ok |-> TRUE,
                   val |-> Response(Value("id").v[1],
                                    IF IsNone("payload") THEN None
                                    ELSE Some(BytesOf(Value("payload"))),
                                    IF IsNone("error") THEN None ELSE Some(Value("error").v),
                                    NoCall)]
             ELSE [ok |-> FALSE, val |-> NoResponse]

\* a Protobuf field: its number, its wire type and its value
Field(tag, wire, v) == << tag, wire, v >>

\* the envelope in Protobuf mode, after the data model of the spec: id is
\* field 1, method and payload are fields 2 and 3 of a Request, payload and
\* error fields 2 and 3 of a Response. The fields a Request or a Response
\* must have are always written, payload and error of a Response when they
\* are present
to_protobuf(x) ==
    << Field(1, "varint", << x.id >>) >>
    \o (IF "method" \in DOMAIN x
        THEN << Field(2, "len", x.method), Field(3, "len", x.payload) >>
        ELSE (IF x.payload # None THEN << Field(2, "len", x.payload[1]) >> ELSE << >>)
             \o (IF x.error # None THEN << Field(3, "len", x.error[1]) >> ELSE << >>))

\* a payload or error that is not written is read as empty, not as absent
from_protobuf_no_presence(fields, kind) ==
    LET Count(tag) == Cardinality({ i \in 1..Len(fields) : fields[i][1] = tag })
        Value(tag) == fields[CHOOSE i \in 1..Len(fields) : fields[i][1] = tag]
        Required(tag, wire) == Count(tag) = 1 /\ Value(tag)[2] = wire
        Optional(tag, wire) == Count(tag) = 0 \/ (Count(tag) = 1 /\ Value(tag)[2] = wire)
        Opt(tag) == IF Count(tag) = 0 THEN Some(<< >>) ELSE Some(Value(tag)[3])
    IN  IF kind = "Request"
        THEN IF Required(1, "varint") /\ Required(2, "len") /\ Required(3, "len")
             THEN [ok |-> TRUE, val |-> Request(Value(1)[3][1], Value(2)[3], Value(3)[3], NoCall)]
             ELSE [ok |-> FALSE, val |-> NoRequest]
        ELSE IF Required(1, "varint") /\ Optional(2, "len") /\ Optional(3, "len")
             THEN [ok |-> TRUE, val |-> Response(Value(1)[3][1], Opt(2), Opt(3), NoCall)]
             ELSE [ok |-> FALSE, val |-> NoResponse]

\* the decoding of the envelope in Protobuf mode, after the wire model of the
\* spec: fields with other numbers are ignored, and a required field that is
\* missing is a decode failure, as is a field of another wire type; payload
\* and error of a Response may be missing, and are absent then. The spec has
\* no rule for a field that is given twice: it is a decode failure here
from_protobuf(fields, kind) ==
    LET Count(tag) == Cardinality({ i \in 1..Len(fields) : fields[i][1] = tag })
        Value(tag) == fields[CHOOSE i \in 1..Len(fields) : fields[i][1] = tag]
        Required(tag, wire) == Count(tag) = 1 /\ Value(tag)[2] = wire
        Optional(tag, wire) == Count(tag) = 0 \/ (Count(tag) = 1 /\ Value(tag)[2] = wire)
        Opt(tag) == IF Count(tag) = 0 THEN None ELSE Some(Value(tag)[3])
    IN  IF kind = "Request"
        THEN IF Required(1, "varint") /\ Required(2, "len") /\ Required(3, "len")
             THEN [ok |-> TRUE, val |-> Request(Value(1)[3][1], Value(2)[3], Value(3)[3], NoCall)]
             ELSE [ok |-> FALSE, val |-> NoRequest]
        ELSE IF Required(1, "varint") /\ Optional(2, "len") /\ Optional(3, "len")
             THEN [ok |-> TRUE, val |-> Response(Value(1)[3][1], Opt(2), Opt(3), NoCall)]
             ELSE [ok |-> FALSE, val |-> NoResponse]

\* crate::serialize(value, format): the bytes of the envelope
serialize_as(value, format) == IF format = "Json" THEN to_json(value) ELSE to_protobuf(value)

\* crate::deserialize::<T>(data, format), T being Request or Response
deserialize_as(data, format, kind) ==
    IF format = "Json" THEN from_json(data, kind) ELSE from_protobuf(data, kind)

\* the type of an envelope
KindOf(x) == IF "method" \in DOMAIN x THEN "Request" ELSE "Response"

\* the requests that are serialized: every field at its default and not
CodecRequests ==
    { Request(i, m, p, NoCall) :
          i \in Ids, m \in { << >>, EchoMethod, << "e", ".", "a", ".", "b" >> },
          p \in { << >>, << 0 >>, EchoPayload } }

\* the responses that are serialized: payload and error absent, empty and not
CodecResponses ==
    { Response(i, pl, er, NoCall) :
          i \in Ids, pl \in { None, Some(<< >>), Some(EchoPayload) },
          er \in { None, Some(<< >>), Some(<< "boom" >>) } }

\* serialize(&x, f); codec.done holds the formats of the round trips made
\* before this one
SerializeCall(x, f) ==
    /\ codec.pc \in {"off", "deserialized"}
    /\ codec' = [codec EXCEPT !.pc = "serialized", !.value = x, !.format = f,
                               !.bytes = serialize_as(x, f),
                               !.done = IF codec.pc = "deserialized"
                                        THEN @ \cup {codec.format} ELSE @]
    /\ UNCHANGED << session, message_stream, pending, next_id, call, rx, connect, closer,
                    handler, conn, c2s, s2c, srv, peer, server, hconn, params,
                    accept, locks, retry >>

\* deserialize(&bytes, f) of the bytes that serialize() gave, with the same f
DeserializeCall ==
    /\ codec.pc = "serialized"
    /\ codec' = [codec EXCEPT !.pc = "deserialized",
                               !.back = deserialize_as(codec.bytes, codec.format, KindOf(codec.value))]
    /\ UNCHANGED << session, message_stream, pending, next_id, call, rx, connect, closer,
                    handler, conn, c2s, s2c, srv, peer, server, hconn, params,
                    accept, locks, retry >>

NextCodec ==
    \/ \E x \in CodecRequests, f \in Formats : SerializeCall(x, f)
    \/ \E x \in CodecResponses, f \in Formats : SerializeCall(x, f)
    \/ DeserializeCall

SpecCodec == Init /\ [][NextCodec]_vars

(* ------------------- a call() future that is dropped ------------------ *)

\* the caller drops the future of call() while it waits at "Wait for response
\* with timeout": the receiver is dropped with it; call() has no drop guard,
\* so nothing else runs
CallDrop(k) ==
    /\ call[k].pc = "await"
    /\ call' = [call EXCEPT ![k].pc = "dropped"]
    /\ rx' = [rx EXCEPT ![k] = RxGone]
    /\ UNCHANGED << session, message_stream, pending, next_id, connect, closer, handler,
                    conn, c2s, s2c, srv, peer, server, hconn, params, codec,
                    accept, locks, retry >>

\* one client and the echo service: calls that are answered, time out or are
\* dropped by their caller; no close() and no transport failure
NextCancel ==
    \/ \E k \in Calls : CallAllocId(k, EchoMethod, EchoPayload)
    \/ \E k \in Calls : CallRegister(k)
    \/ \E k \in Calls : CallSend(k)
    \/ \E k \in Calls : CallTimeout(k)
    \/ \E k \in Calls : CallReturn(k)
    \/ \E k \in Calls : CallDrop(k)
    \/ HandlerTake
    \/ HandlerReceive
    \/ HandlerRemove
    \/ HandlerDeliver
    \/ \E ok \in BOOLEAN : ConnectEstablish(ok)
    \/ ConnectSetSession
    \/ ConnectSetStream
    \/ SrvReceive
    \/ SrvCallReturn

SpecCancel == Init /\ [][NextCancel]_vars

(* ------------------------ request writes that fail -------------------- *)

\* payloads of the calls of this scenario: one that fits a frame and one that
\* does not
SendPayloads == { EchoPayload, BigPayload }

\* one client and the echo service, with requests the codec refuses to write
\* and a transport that can fail; no close()
NextSend ==
    \/ \E k \in Calls, p \in SendPayloads : CallAllocId(k, EchoMethod, p)
    \/ \E k \in Calls : CallRegister(k)
    \/ \E k \in Calls : CallSend(k)
    \/ \E k \in Calls : CallTimeout(k)
    \/ \E k \in Calls : CallReturn(k)
    \/ HandlerTake
    \/ HandlerReceive
    \/ HandlerRemove
    \/ HandlerDeliver
    \/ \E err \in BOOLEAN : HandlerLeave(err)
    \/ HandlerExit
    \/ \E ok \in BOOLEAN : ConnectEstablish(ok)
    \/ ConnectSetSession
    \/ ConnectSetStream
    \/ SrvReceive
    \/ SrvCallReturn
    \/ SrvEnd
    \/ TransportFail

SpecSend == Init /\ [][NextSend]_vars

(* ------------------------------ Server::serve ------------------------- *)

\* serve() is called: the accept loop starts
ServeStart ==
    /\ accept.pc = "off"
    /\ accept' = [accept EXCEPT !.pc = "accept"]
    /\ UNCHANGED << session, message_stream, pending, next_id, call, rx, connect, closer,
                    handler, conn, c2s, s2c, srv, peer, server, hconn, params, codec,
                    locks, retry >>

\* serve() after conn.await failed: Err(e) => { error!(..); continue }
HandshakeFailedBreaks(a) ==
    [a EXCEPT !.pc = "returned", !.result = "Err", !.conns = Append(@, "refused")]

HandshakeFailed(a) == [a EXCEPT !.pc = "accept", !.conns = Append(@, "refused")]

\* serve() after conn.await succeeded: handle_connection is spawned as a task
\* of its own, and the loop goes back to endpoint.accept()
Spawned(a) == [a EXCEPT !.pc = "accept", !.conns = Append(@, "running")]

\* endpoint.accept().await yields Some(conn), an incoming connection: serve()
\* goes on to await its handshake
ServeAccept ==
    /\ accept.pc = "accept"
    /\ accept.endpoint = "open"
    /\ Len(accept.conns) < MaxConnections
    /\ accept' = [accept EXCEPT !.pc = "handshake"]
    /\ UNCHANGED << session, message_stream, pending, next_id, call, rx, connect, closer,
                    handler, conn, c2s, s2c, srv, peer, server, hconn, params, codec,
                    locks, retry >>

\* conn.await returns: the handshake of the incoming connection has succeeded
\* (ok) or failed, whether the endpoint has been closed meanwhile or not
ServeHandshake(ok) ==
    /\ accept.pc = "handshake"
    /\ accept' = IF ok THEN Spawned(accept) ELSE HandshakeFailed(accept)
    /\ UNCHANGED << session, message_stream, pending, next_id, call, rx, connect, closer,
                    handler, conn, c2s, s2c, srv, peer, server, hconn, params, codec,
                    locks, retry >>

\* endpoint.accept() yields None: break Ok(())
ServeReturn ==
    /\ accept.pc = "accept"
    /\ accept.endpoint = "closed"
    /\ accept' = [accept EXCEPT !.pc = "returned", !.result = "Ok"]
    /\ UNCHANGED << session, message_stream, pending, next_id, call, rx, connect, closer,
                    handler, conn, c2s, s2c, srv, peer, server, hconn, params, codec,
                    locks, retry >>

\* the endpoint is closed; accept.closedAt is the number of connections that
\* serve() had taken to their end by then
EndpointClose ==
    /\ accept.endpoint = "open"
    /\ accept' = [accept EXCEPT !.endpoint = "closed", !.closedAt = Len(accept.conns)]
    /\ UNCHANGED << session, message_stream, pending, next_id, call, rx, connect, closer,
                    handler, conn, c2s, s2c, srv, peer, server, hconn, params, codec,
                    locks, retry >>

\* the task of connection i ends: handle_connection returned Ok, or it
\* returned an error, which the task logs
ConnectionTaskEnd(i, ok) ==
    /\ i \in 1..Len(accept.conns)
    /\ accept.conns[i] = "running"
    /\ accept' = [accept EXCEPT !.conns[i] = IF ok THEN "ended" ELSE "failed"]
    /\ UNCHANGED << session, message_stream, pending, next_id, call, rx, connect, closer,
                    handler, conn, c2s, s2c, srv, peer, server, hconn, params, codec,
                    locks, retry >>

NextServe ==
    \/ ServeStart
    \/ ServeAccept
    \/ \E ok \in BOOLEAN : ServeHandshake(ok)
    \/ ServeReturn
    \/ EndpointClose
    \/ \E i \in 1..MaxConnections, ok \in BOOLEAN : ConnectionTaskEnd(i, ok)

SpecServe == Init /\ [][NextServe]_vars

(* ------------- requests with an empty service or method part ---------- *)

\* method strings with an empty part: ".x", "e." and ".", and "e.e"
EmptyPartMethods ==
    { << ".", "x" >>, << "e", "." >>, << "." >>, << "e", ".", "e" >> }

\* the frames of a remote client that sends such requests
EmptyPartFrames ==
    { serialize(Request(i, m, p, NoCall)) : i \in Ids, m \in EmptyPartMethods, p \in Payloads }

\* the session serving a remote client that sends such requests
NextEmptyPart ==
    \/ \E ok \in BOOLEAN : PeerConnect(ok)
    \/ \E f \in EmptyPartFrames : PeerSend(f)
    \/ SrvReceive
    \/ SrvReply
    \/ SrvCallReturn
    \/ SrvCallTimeout
    \/ SrvEnd
    \/ TransportFail

SpecEmptyPart == Init /\ [][NextEmptyPart]_vars

(* ------------------------------ id allocation ------------------------- *)

\* one client whose calls pass or fail the serialization of their payload;
\* no server answers
NextIds ==
    \/ \E k \in IdCalls : CallAllocId(k, EchoMethod, EchoPayload)
    \/ \E k \in IdCalls : CallSerializeError(k)
    \/ \E k \in IdCalls : CallRegister(k)
    \/ \E k \in IdCalls : CallSend(k)
    \/ \E k \in IdCalls : CallTimeout(k)
    \/ \E ok \in BOOLEAN : ConnectEstablish(ok)
    \/ ConnectSetSession
    \/ ConnectSetStream

SpecIds == Init /\ [][NextIds]_vars

(* ------------------------ the client's mutexes ------------------------ *)

\* lock().await on mutex m, and the drop of its guard
Acquire(m) == [op |-> "lock", mutex |-> m]

Release(m) == [op |-> "drop", mutex |-> m]

\* call() keeps pending_guard while it takes the message_stream mutex
CallProgramNested ==
    << Acquire("next_id"), Release("next_id"),
       Acquire("pending"),
       Acquire("message_stream"), Release("message_stream"),
       Release("pending") >>

\* call(): "Get next request ID", "Register pending request" and "Serialize
\* and send request" are three blocks, each with one guard
CallProgram ==
    << Acquire("next_id"), Release("next_id"),
       Acquire("pending"), Release("pending"),
       Acquire("message_stream"), Release("message_stream") >>

\* close(): three guards taken one after the other and dropped when the
\* function returns, in the reverse order of their declaration
CloseProgram ==
    << Acquire("session"), Acquire("message_stream"), Acquire("pending"),
       Release("pending"), Release("message_stream"), Release("session") >>

\* connect(): "Update client state" is two blocks
ConnectProgram ==
    << Acquire("session"), Release("session"),
       Acquire("message_stream"), Release("message_stream") >>

\* the handler task: guard.take(), then per response the removal from the
\* pending table (steps 3 and 4, repeated), then "Put the stream back"
HandlerProgram ==
    << Acquire("message_stream"), Release("message_stream"),
       Acquire("pending"), Release("pending"),
       Acquire("message_stream"), Release("message_stream") >>

Program(t) ==
    IF t.kind = "call" THEN CallProgram
    ELSE IF t.kind = "close" THEN CloseProgram
    ELSE IF t.kind = "connect" THEN ConnectProgram
    ELSE HandlerProgram

\* task t has steps left; the handler exists once connect() has spawned it
Running(t) ==
    /\ locks.pc[t] <= Len(Program(t))
    /\ t.kind = "handler" => locks.pc[Task("connect", 0)] > Len(ConnectProgram)

\* task t takes its next step: a lock() that finds the mutex free, or a drop
LockStep(t) ==
    /\ Running(t)
    /\ LET step == Program(t)[locks.pc[t]] IN
       IF step.op = "lock"
       THEN /\ locks.owner[step.mutex] = NoTask
            /\ locks' = [locks EXCEPT !.owner[step.mutex] = t, !.pc[t] = @ + 1]
       ELSE locks' = [locks EXCEPT !.owner[step.mutex] = NoTask, !.pc[t] = @ + 1]
    /\ UNCHANGED << session, message_stream, pending, next_id, call, rx, connect, closer,
                    handler, conn, c2s, s2c, srv, peer, server, hconn, params, codec,
                    accept, retry >>

\* the handler goes back to stream.receive() for the next response, or its
\* loop ends without a response having been read
HandlerLoop(again) ==
    /\ Running(Task("handler", 0))
    /\ locks.pc[Task("handler", 0)] = IF again THEN 5 ELSE 3
    /\ locks' = [locks EXCEPT !.pc[Task("handler", 0)] = IF again THEN 3 ELSE 5]
    /\ UNCHANGED << session, message_stream, pending, next_id, call, rx, connect, closer,
                    handler, conn, c2s, s2c, srv, peer, server, hconn, params, codec,
                    accept, retry >>

NextLocks ==
    \/ \E t \in Tasks : LockStep(t)
    \/ \E again \in BOOLEAN : HandlerLoop(again)

SpecLocks == Init /\ [][NextLocks]_vars

(* ------------------ Server::new and the server identity --------------- *)

\* the values of Config.cert_path and Config.key_path
CertPaths == { None, Some(CertFile) }

KeyPaths == { None, Some(KeyFile) }

\* Server::new() is called with a Config of these paths and parameters
ServerNewCall(cert_path, key_path, k, i, m) ==
    /\ params.pc = "off"
    /\ params' = [ParamsCall("Server::new", k, i, m, ParamsResult("none", << >>))
                     EXCEPT !.cert_path = cert_path, !.key_path = key_path]
    /\ UNCHANGED << session, message_stream, pending, next_id, call, rx, connect, closer,
                    handler, conn, c2s, s2c, srv, peer, server, hconn, codec,
                    accept, locks, retry >>

NextServerConfig ==
    \/ \E cp \in CertPaths, kp \in KeyPaths,
          k \in KeepAlives, i \in IdleTimeouts, m \in StreamLimits : ServerNewCall(cp, kp, k, i, m)
    \/ \E env \in NewOutcomes : ServerNewReturn(env)

SpecServerConfig == Init /\ [][NextServerConfig]_vars

(* ------------------------------ retry_with_backoff -------------------- *)

\* values of initial_delay and max_delay, in milliseconds
InitialDelays == { 0, 1, 100, 500 }

MaxDelays == { 0, 100, 300 }

\* the values of (delay.as_millis() as f64 * 2.0 * jitter_factor) as u64, for
\* the jitter factors 0.8 + rand::random::<f64>() * 0.4: rand::random::<f64>()
\* is in [0, 1), and in f64 arithmetic the factor goes from 0.8 up to 1.2
\* itself (0.8 + (1 - 2^-53) * 0.4 rounds to 1.2), so the product goes from
\* 1.6 * delay to 2.4 * delay, both ends included, and the cast cuts it down
\* to every whole number from there
Jittered(delay) == ((16 * delay) \div 10)..((24 * delay) \div 10)

Min(a, b) == IF a <= b THEN a ELSE b

\* std::cmp::min(max_delay, Duration::from_millis(jittered))
NextDelay(max_delay, jittered) == Min(max_delay, jittered)

ExhaustedOver(retry_count, max_retries) == retry_count > max_retries

\* if retry_count >= max_retries { return Err(err) }
Exhausted(retry_count, max_retries) == retry_count >= max_retries

\* retry_with_backoff(f, initial_delay, max_delay, max_retries) is called
RetryStart(initial_delay, max_delay, max_retries) ==
    /\ retry.pc = "off"
    /\ retry' = RetryCall("invoke", initial_delay, max_delay, max_retries)
    /\ UNCHANGED << session, message_stream, pending, next_id, call, rx, connect, closer,
                    handler, conn, c2s, s2c, srv, peer, server, hconn, params, codec,
                    accept, locks >>

\* f().await returns: Ok is returned at once; an error is counted and is
\* returned when the count has reached max_retries
RetryInvoke(ok) ==
    /\ retry.pc = "invoke"
    /\ LET n == retry.invocations + 1 IN
       retry' = IF ok
                THEN [retry EXCEPT !.pc = "returned", !.invocations = n,
                                   !.result = RetryResult("Ok", n)]
                ELSE IF Exhausted(retry.retry_count + 1, retry.max_retries)
                THEN [retry EXCEPT !.pc = "returned", !.invocations = n,
                                   !.retry_count = @ + 1,
                                   !.result = RetryResult("Err", n)]
                ELSE [retry EXCEPT !.pc = "sleep", !.invocations = n, !.retry_count = @ + 1]
    /\ UNCHANGED << session, message_stream, pending, next_id, call, rx, connect, closer,
                    handler, conn, c2s, s2c, srv, peer, server, hconn, params, codec,
                    accept, locks >>

\* time::sleep(delay).await, then the next delay is computed
RetrySleep(jittered) ==
    /\ retry.pc = "sleep"
    /\ retry' = [retry EXCEPT !.pc = "invoke",
                              !.sleeps = Append(@, retry.delay),
                              !.delay = NextDelay(retry.max_delay, jittered)]
    /\ UNCHANGED << session, message_stream, pending, next_id, call, rx, connect, closer,
                    handler, conn, c2s, s2c, srv, peer, server, hconn, params, codec,
                    accept, locks >>

NextRetry ==
    \/ \E d \in InitialDelays, x \in MaxDelays, r \in 0..MaxRetries : RetryStart(d, x, r)
    \/ \E ok \in BOOLEAN : RetryInvoke(ok)
    \/ \E j \in Jittered(retry.delay) : RetrySleep(j)

SpecRetry == Init /\ [][NextRetry]_vars

\* every invocation of f returns and every sleep ends
SpecRetryFair ==
    /\ SpecRetry
    /\ WF_vars(\E ok \in BOOLEAN : RetryInvoke(ok))
    /\ WF_vars(\E j \in Jittered(retry.delay) : RetrySleep(j))

(* ------------------------------ properties ---------------------------- *)

\* C1: whenever the response handler delivers a result to a caller, the
\* response it was built from carries the id of that caller's request and
\* answers that caller's own request, not the request of another call.
C1_OwnResponse ==
    \A k \in CallIds :
        (rx[k].st = "value" /\ rx[k].val.kind \in {"Ok", "RpcFailed"})
            => (rx[k].val.from_id = call[k].id /\ rx[k].val.from_call = k)

\* C2: a call of the echo method issued after connect() returned Ok, with the
\* transport up, no close() and no deadline expired on the client or on the
\* server, returns Ok with its own payload.
C2_EchoReturnsPayload ==
    \A k \in CallIds :
        ( /\ call[k].pc = "done"
          /\ call[k].ready
          /\ call[k].method = EchoMethod
          /\ conn = "up"
          /\ closer.pc = "idle" /\ closer.returned = 0
          /\ call[k].result.kind # "Timeout"
          /\ call[k].result.msg # << "Request timeout" >> )
            => (call[k].result.kind = "Ok" /\ to_vec(call[k].result.bytes) = call[k].payload)

\* C3: no two outstanding calls (registered, not yet returned) share an id:
\* registering never replaces the entry of a call that is still outstanding.
C3_NoSharedId ==
    \A j, k \in CallIds :
        (j # k /\ call[j].pc \in {"send", "await"} /\ call[k].pc \in {"send", "await"})
            => call[j].id # call[k].id

\* C4: once call() has returned Timeout, the pending table no longer holds
\* the entry that call registered.
C4_TimeoutRemovesEntry ==
    \A k \in CallIds :
        (call[k].pc = "done" /\ call[k].result.kind = "Timeout")
            => pending[call[k].id] # k

\* C5 as claimed: every call that was awaiting its response when close()
\* drained the table returns ConnectionClosed (a call whose own deadline
\* expires first is let off).
C5_AwaitingGetClosed ==
    \A k \in closer.awaiting :
        call[k].pc = "done" => call[k].result \in {ErrConnectionClosed, ErrTimeout}

\* C5 as amended: every call that was awaiting its response with its sender
\* still in the pending table when close() drained it has ConnectionClosed
\* ready in its channel until it returns, and returns ConnectionClosed; and
\* the pending table is empty when close() returns.
C5_DrainedGetClosed ==
    /\ [](\A k \in closer.drained :
            \/ /\ call[k].pc = "await"
               /\ rx[k].st \in {"value", "dropped"}
               /\ AwaitResult(rx[k]) = ErrConnectionClosed
            \/ /\ call[k].pc = "done"
               /\ call[k].result = ErrConnectionClosed)
    /\ [][(closer.pc = "drain" /\ closer'.pc = "idle") => pending' = EmptyPending]_vars

\* a call that awaited its response with its sender in the table when close()
\* drained it has returned ConnectionClosed
C5_Witness ==
    \E k \in closer.drained : call[k].pc = "done" /\ call[k].result = ErrConnectionClosed

\* C6: a call issued after a close() of the connected client has returned
\* writes no request frame and returns ConnectionClosed.
C6_CallAfterCloseRefused ==
    \A k \in CallIds :
        call[k].afterClose =>
            /\ call[k].pc # "await"
            /\ call[k].pc = "done" => call[k].result = ErrConnectionClosed

\* C7: whenever close() returns, the first time or again, the session is
\* absent, the message stream slot is empty and the pending table is empty.
C7_CloseIdempotent ==
    [][(closer.pc = "drain" /\ closer'.pc = "idle")
        => (session' = FALSE /\ message_stream' = "None" /\ pending' = EmptyPending)]_vars

\* a second close() has returned, after the handler task had exited and put
\* the stream back
C7_Witness ==
    /\ closer.returned = 2 /\ closer.pc = "idle"
    /\ handler.pc = "exited"
    /\ session = FALSE /\ message_stream = "None" /\ pending = EmptyPending

\* C8: when the response handler exits on end-of-stream or a receive error,
\* every call pending at that moment is completed with ConnectionClosed.
C8_ExitFailsPending ==
    [][(handler.pc = "left" /\ handler'.pc = "exited")
        => \A k \in PendingCalls :
              call[k].pc = "await" => rx'[k] = RxValue(ErrConnectionClosed)]_vars

\* C9: a call issued after an earlier call returned Ok, RpcFailed or Timeout,
\* with the transport up and no close(), is not refused: it does not fail
\* with ConnectionClosed or a transport error.
C9_ConnectionStaysUsable ==
    \A k \in CallIds :
        ( /\ call[k].pc = "done"
          /\ call[k].afterReturn
          /\ conn = "up"
          /\ closer.pc = "idle" /\ closer.returned = 0 )
            => call[k].result.kind \notin {"ConnectionClosed", "WebTransport"}

\* C10: while a handler is still running the session goes on reading: with a
\* request waiting on the stream, the session can receive it.
C10_ReadsWhileHandling ==
    (srv.pc = "call" /\ c2s # << >> /\ conn = "up") => ENABLED SrvReceive

\* the session takes a frame off the stream that the codec lets through
SrvTakesFrame ==
    /\ srv.pc = "recv" /\ c2s # << >>
    /\ ~FrameTooBig(Head(c2s))
    /\ c2s' = Tail(c2s)

\* the session goes on with the next frame having sent exactly response r
SrvAnswers(r) ==
    /\ srv'.pc = "recv"
    /\ Len(s2c') = Len(s2c) + 1
    /\ SubSeq(s2c', 1, Len(s2c)) = s2c
    /\ deserialize(s2c'[Len(s2c')]).val = r

\* having taken a frame, the session holds request q to answer it without a
\* service call; nothing is written in this step
SrvHolds(q) ==
    /\ srv'.pc = "reply"
    /\ srv'.req = q
    /\ s2c' = s2c

\* the session leaves the send of the response it owes for the request it
\* holds, with the transport up
SrvReplies ==
    /\ srv.pc = "reply"
    /\ srv'.pc # "reply"
    /\ conn = "up"

\* C11: when the session takes a frame that does not deserialize as a
\* Request, it sends Response{id=0, error="malformed request"} and goes on
\* with the next frame: the session is not torn down.
C11_MalformedAnswered ==
    /\ [][(SrvTakesFrame /\ ~deserialize(Head(c2s)).ok) => SrvHolds(NoRequest)]_vars
    /\ [][(SrvReplies /\ srv.req = NoRequest)
            => SrvAnswers(Response(0, None, Some(<< "malformed request" >>), NoCall))]_vars

\* the request in the frame at the head of the stream
HeadRequest == deserialize(Head(c2s)).val

\* the session takes a frame that deserializes as a Request
SrvTakesRequest == SrvTakesFrame /\ deserialize(Head(c2s)).ok

NoDot(s) == \A i \in 1..Len(s) : s[i] # "."

Prefixes(s) == { SubSeq(s, 1, i) : i \in 0..Len(s) }

Suffixes(s) == { SubSeq(s, i, Len(s)) : i \in 1..(Len(s) + 1) }

\* m is "sv.rest" and sv has no '.': sv is the text before the first '.' of m
\* and rest the text after it
IsSplit(m, sv, rest) == NoDot(sv) /\ m = format_method_name(sv, rest)

RegisteredNames == { e.name : e \in server.services }

\* C12: for a request whose method has no '.', the session sends a response
\* with the request's id, payload absent and error exactly "invalid method
\* format", calls no service and goes on with the next request.
C12_NoDotAnswered ==
    /\ [][(SrvTakesRequest /\ NoDot(HeadRequest.method)) => SrvHolds(HeadRequest)]_vars
    /\ [][(SrvReplies /\ NoDot(srv.req.method))
            => SrvAnswers(Response(srv.req.id, None, Some(<< "invalid method format" >>),
                                   srv.req.origin))]_vars

\* C13: for a request "sv.rest" whose service sv is not in the registry, the
\* session sends a response with the request's id, payload absent and error
\* exactly "service not found: sv", and goes on with the next request.
C13_UnknownServiceAnswered ==
    /\ [][SrvTakesRequest =>
            \A sv \in Prefixes(HeadRequest.method), rest \in Suffixes(HeadRequest.method) :
            (IsSplit(HeadRequest.method, sv, rest) /\ sv \notin RegisteredNames)
                => SrvHolds(HeadRequest)]_vars
    /\ [][SrvReplies =>
            \A sv \in Prefixes(srv.req.method), rest \in Suffixes(srv.req.method) :
            (IsSplit(srv.req.method, sv, rest) /\ sv \notin RegisteredNames)
                => SrvAnswers(Response(srv.req.id, None, Some(<< "service not found: " >> \o sv),
                                       srv.req.origin))]_vars

\* C14: when the service call does not finish within the timeout and the
\* transport is up, the session sends a response with the request's id and
\* error exactly "timeout", and goes on with the next request.
C14_TimeoutAnswered ==
    [][(SrvCallTimeout /\ conn = "up")
        => SrvAnswers(Response(srv.req.id, None, Some(<< "timeout" >>), srv.req.origin))]_vars

\* C15: a request "sv.rest" whose service sv is registered is dispatched to
\* the handle registered under sv (the text before the first '.'), with
\* method rest (the text after the first '.', further dots included) and the
\* request's payload; and when the call returns, the response built carries
\* the request's id, and the payload b with no error for Ok(b), or no payload
\* and the error's display string for an error: it is what the session
\* writes when the write succeeds, the transport being up and the frame
\* within max_frame_length.
C15_Dispatch ==
    /\ [][SrvTakesRequest =>
            \A sv \in Prefixes(HeadRequest.method), rest \in Suffixes(HeadRequest.method) :
            (IsSplit(HeadRequest.method, sv, rest) /\ sv \in RegisteredNames)
                => \E h \in { e.handle : e \in server.services } :
                      /\ Registered(sv, h) \in server.services
                      /\ s2c' = s2c
                      /\ srv' = [pc |-> "call", req |-> HeadRequest,
                                 args |-> ServiceArgs(h, rest, HeadRequest.payload)]]_vars
    /\ [][SrvCallReturn
            => LET res == ServiceCall(srv.args.handle, srv.args.method, srv.args.payload)
                   response == IF res.ok
                               THEN Response(srv.req.id, Some(res.bytes), None, srv.req.origin)
                               ELSE Response(srv.req.id, None, Some(ErrorToString(res.err)),
                                             srv.req.origin)
               IN  IF conn = "up" /\ ~FrameTooBig(serialize(response))
                   THEN SrvAnswers(response)
                   ELSE s2c' = s2c /\ srv'.pc = "closed"]_vars

\* the session has answered "e.a.b" with the display string of the error of
\* method "a.b", and an "e.e" request with its payload
C15_Witness ==
    /\ \E i \in 1..Len(s2c) :
          /\ deserialize(s2c[i]).val.error = Some(<< "Method not found: ", "a", ".", "b" >>)
          /\ deserialize(s2c[i]).val.payload = None
    /\ \E i \in 1..Len(s2c) :
          /\ deserialize(s2c[i]).val.payload = Some(EchoPayload)
          /\ deserialize(s2c[i]).val.error = None

\* C16: register_service() called with a name that is already in the
\* registry returns an error and leaves the registry as it was, the first
\* handle in place.
C16_DuplicateRejected ==
    [][\A e \in server.services, h \in Handles :
        RegisterService(e.name, h)
            => (server'.last.result # "Ok" /\ server'.services = server.services)]_vars

\* C17: when the response handler hands the result of a response to the
\* caller's channel: with error present the result is RpcFailed(error); with
\* only the payload present it is Ok(payload); with both absent it is not Ok.
C17_ResponseResult ==
    [][(handler.pc = "deliver" /\ handler'.pc = "recv"
            /\ rx'[handler.sender] # rx[handler.sender])
        => LET r == handler.resp
               v == rx'[handler.sender].val
           IN /\ r.error # None => (v.kind = "RpcFailed" /\ v.msg = r.error[1])
              /\ (r.error = None /\ r.payload # None)
                    => (v.kind = "Ok" /\ v.bytes = r.payload[1])
              /\ (r.error = None /\ r.payload = None) => v.kind # "Ok"]_vars

\* the session requests made so far on a path other than "/rpc"
OtherPathSessions == { i \in 1..Len(hconn.sessions) : hconn.sessions[i].path # RpcPath }

\* C18 as claimed: a session request on a path other than "/rpc" gets no
\* handle_session (no stream is accepted and nothing is dispatched for it),
\* and after it the connection task still accepts session requests until the
\* connection is over.
C18_OthersRejectedRpcServed ==
    /\ \A i \in OtherPathSessions : hconn.sessions[i].outcome # "spawned"
    /\ OtherPathSessions # {} => hconn.pc \in { "accept", "done" }

\* C18 as amended: a session request on a path other than "/rpc" is rejected
\* and gets no handle_session; when the rejection succeeds the accept loop
\* goes on, and a request on "/rpc" that it takes next is accepted; the loop,
\* once it has taken a request, has stopped before the connection is over
\* exactly when a rejection failed.
C18_OthersRejected ==
    /\ [](\A i \in OtherPathSessions :
            hconn.sessions[i].outcome \in { "rejected", "reject_failed" })
    /\ []((hconn.pc = "failed" /\ hconn.sessions # << >>)
            <=> \E i \in OtherPathSessions : hconn.sessions[i].outcome = "reject_failed")
    /\ [][(hconn.pc = "accept" /\ Len(hconn'.sessions) = Len(hconn.sessions) + 1)
            => LET s == hconn'.sessions[Len(hconn'.sessions)] IN
               /\ s.outcome = "rejected" => hconn'.pc = "accept"
               /\ s.path = RpcPath => s.outcome \in { "spawned", "accept_failed" }]_vars

\* a request to "/" was rejected and the request to "/rpc" after it was
\* accepted on the same connection
C18_Witness ==
    /\ Len(hconn.sessions) >= 2
    /\ hconn.sessions[1] = [path |-> "/", outcome |-> "rejected"]
    /\ hconn.sessions[2] = [path |-> RpcPath, outcome |-> "spawned"]

\* the frame at the head of stream q has a length prefix over 16 MiB
OverLimit(q) == q # << >> /\ Head(q).len > 16777216

\* the frame at the head of stream q has a length prefix of at most 16 MiB
WithinLimit(q) == q # << >> /\ Head(q).len <= 16777216

\* C19: a frame whose length prefix is over 16 MiB is never taken off the
\* stream, on the server or on the client: the session that meets it can only
\* end, without a response, and the client's handler can only leave its loop;
\* after that neither reads a frame again. A frame of at most 16 MiB, 16 MiB
\* and 0 included, is taken: the session dispatches it when it deserializes
\* and the handler can receive it.
C19_FrameLimit ==
    /\ [][OverLimit(c2s) => (c2s' # << >> /\ Head(c2s') = Head(c2s))]_vars
    /\ [][(OverLimit(c2s) /\ srv.pc = "recv" /\ srv' # srv)
            => (srv'.pc = "closed" /\ s2c' = s2c)]_vars
    /\ [][srv.pc = "closed" => (srv' = srv /\ Len(c2s') >= Len(c2s))]_vars
    /\ [][(WithinLimit(c2s) /\ deserialize(Head(c2s)).ok
             /\ srv.pc = "recv" /\ conn = "up" /\ srv' # srv)
            => (c2s' = Tail(c2s) /\ srv'.pc # "closed")]_vars
    /\ [][OverLimit(s2c) => (s2c' # << >> /\ Head(s2c') = Head(s2c))]_vars
    /\ [][(OverLimit(s2c) /\ handler.pc = "recv" /\ handler' # handler)
            => handler'.pc = "left"]_vars
    /\ []((OverLimit(s2c) /\ handler.pc = "recv") => ENABLED HandlerLeave(TRUE))
    /\ [][handler.pc \in {"left", "exited"}
            => (handler'.pc \in {"left", "exited"} /\ Len(s2c') >= Len(s2c))]_vars
    /\ []((WithinLimit(s2c) /\ handler.pc = "recv") => ENABLED HandlerReceive)

\* the session met a frame over the limit and ended with the transport up:
\* the frame and the one written after it were not taken off the stream
C19_Witness ==
    /\ srv.pc = "closed" /\ conn = "up"
    /\ Len(c2s) = 2
    /\ c2s[1].len > 16777216

\* C20: validate_connection_params() returns Ok exactly when keep_alive_ms is
\* absent or at least 100, idle_timeout_ms is absent or at least 1000, and
\* max_concurrent_streams is between 1 and 1000; it returns InvalidConfig
\* otherwise.
C20_ValidateParams ==
    params.pc = "returned" =>
        IF /\ (params.keep_alive_ms = None \/ params.keep_alive_ms[1] >= 100)
           /\ (params.idle_timeout_ms = None \/ params.idle_timeout_ms[1] >= 1000)
           /\ 1 <= params.max_concurrent_streams
           /\ params.max_concurrent_streams <= 1000
        THEN params.result.kind = "Ok"
        ELSE params.result.kind = "InvalidConfig"

\* the call with every argument at its limit has returned Ok
C20_Witness ==
    /\ params.pc = "returned"
    /\ params.keep_alive_ms = Some(100)
    /\ params.idle_timeout_ms = Some(1000)
    /\ params.max_concurrent_streams = 1000
    /\ params.result.kind = "Ok"

\* the Config of the call keeps the three limits
ConfigValid ==
    /\ (params.keep_alive_ms = None \/ params.keep_alive_ms[1] >= 100)
    /\ (params.idle_timeout_ms = None \/ params.idle_timeout_ms[1] >= 1000)
    /\ 1 <= params.max_concurrent_streams
    /\ params.max_concurrent_streams <= 1000

\* C21: Client::new() and Server::new() called with a Config that breaks one
\* of the three limits return InvalidConfig: no client or server is made.
C21_NewValidates ==
    (params.pc \in { "client", "server" } /\ ~ConfigValid)
        => params.result.kind = "InvalidConfig"

\* C22: for each format and every Request or Response x, deserializing the
\* bytes that serialize gave for x, with the same format, succeeds and gives x.
C22_RoundTrip ==
    codec.pc = "deserialized" => (codec.back.ok /\ codec.back.val = codec.value)

\* after a round trip through JSON, a response with id 0, an empty payload
\* and no error went through Protobuf and back
C22_Witness ==
    /\ codec.pc = "deserialized"
    /\ codec.format = "Protobuf"
    /\ "Json" \in codec.done
    /\ codec.value = Response(0, Some(<< >>), None, NoCall)
    /\ codec.back = [ok |-> TRUE, val |-> Response(0, Some(<< >>), None, NoCall)]

\* C23: the id registered by a call() whose future was dropped while it waited
\* for its response is no longer in the pending table
C23_DropRemovesEntry ==
    \A k \in CallIds : call[k].pc = "dropped" => pending[call[k].id] # k

\* C24: when call() returns an error from its send step, without having
\* awaited a response (the stream slot is empty or the write fails), the id it
\* registered is not left in the pending table
C24_EarlyErrorRemovesEntry ==
    [][\A k \in CallIds :
          (call[k].pc = "send" /\ call'[k].pc = "done")
              => pending'[call[k].id] # k]_vars

\* C25: once the write of a request frame has failed with a transport error
\* and its call() has returned that error, the connection is Closing: no later
\* call writes a request frame
C25_SendFailureCloses ==
    [][(\E j \in CallIds : call[j].pc = "done" /\ call[j].result = ErrWebTransport)
          => Len(c2s') <= Len(c2s)]_vars

\* the send step of call k is taken
CallSends(k) == call[k].pc = "send" /\ call'[k].pc # "send"

\* call k writes no request frame and returns ConnectionClosed at once
RefusedUnsent(k) ==
    /\ c2s' = c2s
    /\ call'[k].pc = "done"
    /\ call'[k].result = ErrConnectionClosed

\* C26: a call() issued before connect() has succeeded writes no request
\* frame and returns ConnectionClosed instead of suspending
C26_NotReadyRefused ==
    [][\A k \in CallIds : (CallSends(k) /\ ~call[k].ready) => RefusedUnsent(k)]_vars

\* the handler takes the frame at the head of the stream
HandlerTakesFrame == handler.pc = "recv" /\ s2c # << >> /\ s2c' = Tail(s2c)

\* the handler, holding the pending table, looks up the id of the response it
\* has decoded
HandlerLooksUp == handler.pc = "remove" /\ handler'.pc # "remove"

\* the id is that of no call that waits for its response: every call that
\* was given it has not registered it yet or has returned Timeout
NoPendingCall(id) ==
    \A k \in CallIds :
        (call[k].pc # "idle" /\ call[k].id = id)
            => (call[k].pc = "register" \/ (call[k].pc = "done" /\ call[k].result = ErrTimeout))

\* C27: a response whose id has no pending entry, the id being unknown or
\* that of a call that has timed out, is discarded: no receiver gets a value
\* or an error, the pending table and the calls are as before, and the
\* handler is back at receive() for the frames that follow
C27_UnknownIdDiscarded ==
    /\ [][(HandlerTakesFrame /\ deserialize(Head(s2c)).ok)
             => (/\ rx' = rx
                 /\ call' = call
                 /\ pending' = pending
                 /\ handler'.pc = "remove"
                 /\ handler'.resp = deserialize(Head(s2c)).val
                 /\ message_stream' = message_stream)]_vars
    /\ [][(HandlerLooksUp /\ NoPendingCall(handler.resp.id))
             => (/\ rx' = rx
                 /\ call' = call
                 /\ pending' = pending
                 /\ handler'.pc = "recv"
                 /\ handler'.sender = NoCall
                 /\ message_stream' = message_stream)]_vars

\* C28: each pending entry is completed at most once: a sender the handler has
\* taken out of the table is no longer there for close() to drain, a result
\* stored in a receiver is never replaced by another one, and a call that has
\* returned its result returns nothing else
C28_CompletedOnce ==
    /\ [](handler.pc = "deliver" => handler.sender \notin PendingCalls)
    /\ [][\A k \in CallIds :
             /\ rx[k].st \in {"value", "dropped"} => rx'[k] \in {rx[k], RxGone}
             /\ call[k].pc = "done" => call'[k] = call[k]]_vars

\* close() drained the table while the handler held the sender of a waiting
\* call, and that call returned the response
C28_Witness ==
    \E k \in closer.awaiting :
        /\ call[k].pc = "done"
        /\ call[k].result.kind = "Ok"
        /\ pending = EmptyPending

\* C29: on a connected client that nobody has closed, while the response
\* handler is waiting in receive(), a call() that reaches its send step gets
\* the message stream and writes its request frame
C29_SendWhileHandlerRuns ==
    [][\A k \in CallIds :
          (/\ CallSends(k)
           /\ connect = "done"
           /\ conn = "up"
           /\ handler.pc = "recv"
           /\ closer.pc = "idle"
           /\ closer.returned = 0)
              => (call'[k].pc = "await" /\ Len(c2s') = Len(c2s) + 1)]_vars

\* the lines the handler has logged
Logged == {handler.log[i] : i \in 1..Len(handler.log)}

\* C30: a response frame that does not deserialize does not fail the
\* connection: the handler is back at receive(), the pending table, the
\* receivers, the calls and the stream are as before, and a valid response read
\* after such a frame is still handed to the call that waits for it
C30_UndecodableSkipped ==
    /\ [][(HandlerTakesFrame /\ ~deserialize(Head(s2c)).ok)
             => (/\ handler'.pc = "recv"
                 /\ pending' = pending
                 /\ rx' = rx
                 /\ call' = call
                 /\ conn' = conn
                 /\ session' = session
                 /\ message_stream' = message_stream)]_vars
    /\ [][(/\ HandlerTakesFrame
           /\ "Failed to deserialize response" \in Logged
           /\ deserialize(Head(s2c)).ok)
             => (/\ handler'.pc = "remove"
                 /\ handler'.resp = deserialize(Head(s2c)).val)]_vars
    /\ [][(/\ HandlerLooksUp
           /\ "Failed to deserialize response" \in Logged
           /\ pending[handler.resp.id] # NoCall)
             => (/\ handler'.pc = "deliver"
                 /\ handler'.sender = pending[handler.resp.id]
                 /\ handler'.resp = handler.resp)]_vars
    /\ [][(/\ handler.pc = "deliver"
           /\ handler'.pc = "recv"
           /\ rx[handler.sender].st = "empty"
           /\ call[handler.sender].pc = "await")
             => rx'[handler.sender] = RxValue(ResponseResult(handler.resp))]_vars

\* a frame that did not deserialize was skipped, and the response read after
\* it was delivered to the call that waited for it
C30_Witness ==
    \E k \in CallIds :
        /\ handler.log = << "Failed to deserialize response", "Received response for request" >>
        /\ handler.pc = "recv"
        /\ call[k].pc = "done"
        /\ call[k].result.kind = "Ok"

\* number of frames the session has taken off the stream
SrvTaken == peer - Len(c2s)

\* C31: while the session runs, every request it has decoded has exactly one
\* response on the stream, except the one it is handling now, which has none
\* yet; and every response written carries the id of the request it is for
C31_OneResponsePerRequest ==
    /\ [](srv.pc \in {"recv", "reply", "call"}
            => Len(s2c) + (IF srv.pc = "recv" THEN 0 ELSE 1) = SrvTaken)
    /\ [][Len(s2c') > Len(s2c)
            => /\ Len(s2c') = Len(s2c) + 1
               /\ SubSeq(s2c', 1, Len(s2c)) = s2c
               /\ deserialize(s2c'[Len(s2c')]).ok
               /\ deserialize(s2c'[Len(s2c')]).val.id =
                      srv.req.id]_vars

\* two requests were answered, the first of them after its service call had
\* timed out, and no third response was written
C31_Witness ==
    /\ srv.pc = "recv"
    /\ SrvTaken = 2
    /\ Len(s2c) = 2
    /\ s2c[1].msg.error = Some(ErrorToString(ServiceTimeout.err))
    /\ s2c[1].msg.id # s2c[2].msg.id

\* the responses the session has written
SrvResponses == { s2c[i].msg : i \in 1..Len(s2c) }

\* C32: every response the session writes has exactly one of payload and
\* error present; a response with a payload is the one for a service call that
\* returned Ok, and it carries the bytes the service returned
C32_PayloadXorError ==
    /\ [](\A r \in SrvResponses : (r.payload = None) # (r.error = None))
    /\ [][Len(s2c') > Len(s2c)
            => LET r == s2c'[Len(s2c')].msg IN
               r.payload # None
                  => /\ srv.pc = "call"
                     /\ ServiceCall(srv.args.handle, srv.args.method, srv.args.payload).ok
                     /\ r.payload = Some(ServiceCall(srv.args.handle, srv.args.method,
                                                     srv.args.payload).bytes)]_vars

\* the session has written a success response and a timeout response
C32_Witness ==
    /\ \E r \in SrvResponses : r.payload # None
    /\ \E r \in SrvResponses : r.error = Some(ErrorToString(ServiceTimeout.err))

\* the connection tasks that are running
RunningTasks == { i \in 1..Len(accept.conns) : accept.conns[i] = "running" }

\* C33: serve() has returned only if the endpoint is closed, and its result
\* is Ok; it returns only from endpoint.accept(), in a step that leaves the
\* connection tasks as they were; a step in which a handshake fails or
\* succeeds, before or after the endpoint was closed, takes serve() back to
\* endpoint.accept() and changes no connection task; a step in which a
\* connection task ends, with or without an error, leaves serve() and every
\* other task as they were; and a task that runs can run to its end, whether
\* serve() has returned or not
C33_ServeUntilClosed ==
    /\ [](accept.pc = "returned" => (accept.endpoint = "closed" /\ accept.result = "Ok"))
    /\ [][(accept.pc # "returned" /\ accept'.pc = "returned")
            => (accept.pc = "accept" /\ accept.endpoint = "closed"
                /\ accept'.conns = accept.conns)]_vars
    /\ [][(accept.pc = "handshake" /\ accept'.pc # "handshake")
            => /\ accept'.pc = "accept"
               /\ accept'.result = accept.result
               /\ Len(accept'.conns) = Len(accept.conns) + 1
               /\ SubSeq(accept'.conns, 1, Len(accept.conns)) = accept.conns]_vars
    /\ [][(Len(accept'.conns) = Len(accept.conns) /\ accept'.conns # accept.conns)
            => /\ accept'.pc = accept.pc
               /\ accept'.result = accept.result
               /\ \E i \in 1..Len(accept.conns) :
                     /\ accept.conns[i] = "running"
                     /\ \A j \in 1..Len(accept.conns) :
                           j # i => accept'.conns[j] = accept.conns[j]]_vars
    /\ [](\A i \in RunningTasks : ENABLED ConnectionTaskEnd(i, TRUE))

\* serve() has returned while one connection task runs, after a handshake
\* and another connection task had failed, the last handshake having ended
\* after the endpoint was closed
C33_Witness ==
    /\ accept.pc = "returned"
    /\ RunningTasks # {}
    /\ accept.closedAt < Len(accept.conns)
    /\ \E i, j \in 1..Len(accept.conns) :
          accept.conns[i] = "refused" /\ accept.conns[j] = "failed"

\* m is "sv.rest", split at its first '.', with sv or rest empty
EmptyPart(m) ==
    \E sv \in Prefixes(m), rest \in Suffixes(m) :
        IsSplit(m, sv, rest) /\ (sv = << >> \/ rest = << >>)

\* C34: for a request whose method string has an empty service part or an
\* empty method part, the session sends the invalid-method-format error with
\* the request's id, calls no service and goes on with the next request
C34_EmptyPartMalformed ==
    /\ [][(SrvTakesRequest /\ EmptyPart(HeadRequest.method)) => SrvHolds(HeadRequest)]_vars
    /\ [][(SrvReplies /\ EmptyPart(srv.req.method))
            => \/ SrvAnswers(InvalidMethodResponse(srv.req))
               \/ SrvAnswers(Response(srv.req.id, None, Some(<< "invalid method format" >>),
                                      srv.req.origin))]_vars

\* call k has passed the serialization of its payload
Passed(k) == call[k].pc # "idle" /\ call[k].result # ErrSerialization

\* the calls before call k that have passed the serialization of their payload
PassedBefore(k) == { j \in CallIds : j < k /\ Passed(j) }

\* C35: the n-th call that passes payload serialization has id (n-1) mod
\* 2^IdBits, the counter holds the number of such calls mod 2^IdBits, and a
\* call whose payload does not serialize takes no id and registers nothing; so
\* no two calls read the same counter value short of a wrap-around
C35_ConsecutiveIds ==
    /\ [](\A k \in CallIds : Passed(k) => call[k].id = Cardinality(PassedBefore(k)) % IdSpace)
    /\ [](next_id = Cardinality({ k \in CallIds : Passed(k) }) % IdSpace)
    /\ [](\A k \in CallIds : call[k].result = ErrSerialization => k \notin PendingCalls)
    /\ [][\A k \in CallIds :
            (call[k].pc = "idle" /\ call'[k].result = ErrSerialization)
                => (next_id' = next_id /\ pending' = pending /\ c2s' = c2s)]_vars

\* after a call whose payload did not serialize, the counter has wrapped: the
\* call that passed as number 2^IdBits + 1 has id 0
C35_Witness ==
    \E j, k \in CallIds :
        /\ j < k
        /\ call[j].result = ErrSerialization
        /\ Passed(k)
        /\ Cardinality(PassedBefore(k)) = IdSpace
        /\ call[k].id = 0

\* task t is suspended in lock().await on a mutex that another task, or t
\* itself, owns
WaitsForLock(t) ==
    /\ Running(t)
    /\ Program(t)[locks.pc[t]].op = "lock"
    /\ locks.owner[Program(t)[locks.pc[t]].mutex] # NoTask

\* the task that owns the mutex t waits for
Blocker(t) == locks.owner[Program(t)[locks.pc[t]].mutex]

\* C36: there is no set of tasks each of which waits for a mutex that a task
\* of the set owns; and a task that owns a mutex always has steps left, so
\* every mutex is released again
C36_NoLockDeadlock ==
    /\ \A S \in SUBSET Tasks :
          S # {} => \E t \in S : ~(WaitsForLock(t) /\ Blocker(t) \in S)
    /\ \A m \in Mutexes : locks.owner[m] # NoTask => Running(locks.owner[m])

\* a call() waits for the message_stream mutex that close() owns, while
\* close() waits for the pending mutex that another task owns
C36_Witness ==
    \E t, u \in Tasks :
        /\ t.kind = "call" /\ u.kind = "close"
        /\ WaitsForLock(t) /\ Blocker(t) = u
        /\ WaitsForLock(u) /\ Blocker(u) \notin {t, u}

\* C37: Server::new() called with a Config whose cert_path is absent, or
\* whose cert_path is present and key_path absent, returns InvalidConfig and
\* has read no file; it returns Ok only if both paths are configured
C37_PathsRequired ==
    params.pc = "server"
        => /\ (params.cert_path = None \/ params.key_path = None)
                 => (params.result.kind = "InvalidConfig" /\ params.reads = << >>)
           /\ params.result.kind = "Ok"
                 => (params.cert_path # None /\ params.key_path # None)

\* Server::new() has returned InvalidConfig for a Config with cert_path set
\* and key_path absent
C37_Witness ==
    /\ params.pc = "server"
    /\ params.cert_path = Some(CertFile)
    /\ params.key_path = None
    /\ params.result.kind = "InvalidConfig"

\* max(1, max_retries)
MostInvocations == IF retry.max_retries < 1 THEN 1 ELSE retry.max_retries

\* C38: retry_with_backoff() invokes f at most max(1, max_retries) times and
\* has invoked it at least once when it returns; what it returns is the
\* result of the last invocation, Ok only from an Ok and an error only after
\* max(1, max_retries) failures; after it has returned nothing more happens;
\* and a call always returns
C38_RetryBounds ==
    /\ [](retry.invocations <= MostInvocations)
    /\ [](retry.pc = "returned"
            => /\ retry.invocations >= 1
               /\ retry.result.of = retry.invocations
               /\ retry.result.kind = "Err" => retry.invocations = MostInvocations)
    /\ [][retry.pc = "returned" => retry' = retry]_vars
    /\ (retry.pc = "invoke") ~> (retry.pc = "returned")

\* the call returned the error of its last invocation after max_retries > 1
\* failures
C38_Witness ==
    /\ retry.pc = "returned"
    /\ retry.max_retries > 1
    /\ retry.result = RetryResult("Err", retry.max_retries)

\* C39: every sleep between two attempts lasts at most max_delay
C39_SleepAtMostMaxDelay ==
    \A i \in 1..Len(retry.sleeps) : retry.sleeps[i] <= retry.max_delay

====
